---------------------------- MODULE Spec2Model ----------------------------
(***************************************************************************)
(* Model of the itf-core pattern engine of IdentifyTheFile:                *)
(*   - pattern synthesis (Pattern::build_patterns_from_data),              *)
(*   - scoring (FilePointCalculator::compute, Pattern::compute_attributes),*)
(*   - the primitives of file_processor.rs.                                *)
(*                                                                         *)
(* Byte buffers and strings are sequences of byte values.  f32 values are  *)
(* fixed-point integers with FP units per 1.0.  usize is scaled to the     *)
(* largest integer of the checker (USIZE_MAX).                             *)
(***************************************************************************)
EXTENDS Integers, Sequences, FiniteSets, TLC

VARIABLES
    files,                    \* headers of the listed sample files, in listing order
    scan_strings,             \* build_patterns_from_data arguments
    scan_byte_sequences,
    scan_byte_distribution,
    pc,                       \* position of the program
    first_byte_sequence_pass, \* locals of build_patterns_from_data
    common_byte_sequences,
    all_strings,
    byte_distribution,
    pattern,                  \* the Pattern
    scored,                   \* inputs and result of the last FilePointCalculator::compute
    sieve_sets,               \* argument of a direct common_string_sieve call
    sieve_result,             \* its return value
    call_args,                \* arguments of a direct call of another primitive
    call_result,              \* its return value
    pattern_files,            \* the persisted pattern records of a pattern directory
    handler_patterns,         \* PatternHandler::patterns
    sample,                   \* the candidate file handed to match_patterns
    point_store               \* the Vec<PatternMatch> match_patterns returns

vars == <<files, scan_strings, scan_byte_sequences, scan_byte_distribution, pc,
          first_byte_sequence_pass, common_byte_sequences, all_strings,
          byte_distribution, pattern, scored, sieve_sets, sieve_result,
          call_args, call_result, pattern_files, handler_patterns, sample,
          point_store>>

\* The variables of the direct calls of primitives and of the query side.
call_vars == <<call_args, call_result>>
query_vars == <<pattern_files, handler_patterns, sample, point_store>>

---------------------------------------------------------------------------
(* Program constants                                                       *)

MIN_STRING_LENGTH == 5
MAX_STRING_LENGTH == 64
MIN_BYTE_SEQUENCE_LENGTH == 1
MAX_BYTE_SEQUENCE_LENGTH == 16
USIZE_MAX == 2147483647

\* One unit of the fixed-point representation of f32: 1.0 is FP.
FP == 2 ^ 7
MAX_ENTROPY_POINTS == 15 * FP
FILE_EXTENSION_POINTS == 5 * FP

\* " !#$+,-./0123456789<=>?A..Z_a..z" as byte values.
ASCII_READABLE_CHARACTERS ==
    {32, 33, 35, 36, 43, 44, 45, 46, 47} \cup (48..57) \cup {60, 61, 62, 63}
        \cup (65..90) \cup {95} \cup (97..122)

ASCII_READABLE_CHARACTERS_SET == [b \in 0..255 |-> b \in ASCII_READABLE_CHARACTERS]

ASCII_UPPERCASE_MAP == [b \in 0..255 |-> IF b \in 97..122 THEN b - 32 ELSE b]

---------------------------------------------------------------------------
(* Bounds of the model                                                     *)

\* Largest number of sample files in a training directory.
MaxFiles == 2
\* Longest run of one byte value inside a generated header.
MaxRun == 16

\* Byte values the generated buffers are made of: NUL, 'A', 'B'.
Bytes == {0, 65, 66}

---------------------------------------------------------------------------
(* Generic helpers                                                         *)

Min(a, b) == IF a < b THEN a ELSE b

Rep(b, n) == [i \in 1..n |-> b]

Range(s) == {s[i] : i \in 1..Len(s)}

RemoveAt(s, i) == SubSeq(s, 1, i - 1) \o SubSeq(s, i + 1, Len(s))

RECURSIVE SumLens(_)
SumLens(S) ==
    IF S = {} THEN 0
    ELSE LET x == CHOOSE y \in S : TRUE IN Len(x) + SumLens(S \ {x})

\* usize::saturating_add
saturating_add(a, b) == IF a > USIZE_MAX - b THEN USIZE_MAX ELSE a + b

\* haystack.contains(needle) / slice equality at a position
OccursAt(haystack, needle, i) ==
    /\ i + Len(needle) <= Len(haystack)
    /\ \A k \in 1..Len(needle) : haystack[i + k] = needle[k]

---------------------------------------------------------------------------
(* file_processor.rs: byte sequences                                       *)

\* The loop of extract_matching_sequences from index i on, with the locals
\* subsequences, subsequence_start and buffer; the trailing push at the end.
RECURSIVE extract_loop(_, _, _, _, _, _, _)
extract_loop(start_at, seq_1, seq_2, i, subsequences, subsequence_start, buffer) ==
    IF i >= Min(Len(seq_1), Len(seq_2))
    THEN IF buffer # <<>>
         THEN Append(subsequences, <<start_at + subsequence_start, buffer>>)
         ELSE subsequences
    ELSE LET inc == seq_1[i + 1] IN
         IF inc = seq_2[i + 1]
         THEN LET st  == IF subsequence_start = USIZE_MAX THEN i ELSE subsequence_start
                  buf == Append(buffer, inc)
              IN  IF Len(buf) = MAX_BYTE_SEQUENCE_LENGTH
                  THEN extract_loop(start_at, seq_1, seq_2, i + 1,
                                    Append(subsequences, <<start_at + st, buf>>),
                                    i + 1, <<>>)
                  ELSE extract_loop(start_at, seq_1, seq_2, i + 1,
                                    subsequences, st, buf)
         ELSE IF subsequence_start # USIZE_MAX
              THEN extract_loop(start_at, seq_1, seq_2, i + 1,
                                Append(subsequences, <<start_at + subsequence_start, buffer>>),
                                USIZE_MAX, <<>>)
              ELSE extract_loop(start_at, seq_1, seq_2, i + 1,
                                subsequences, subsequence_start, buffer)

\* Variant: the seed pair is emitted as it is.
extract_matching_sequences_whole(start_at, seq_1, seq_2) == << <<start_at, seq_1>> >>

\* Variant: the offsets are relative to the seed pair, start_at is not added.
extract_matching_sequences_relative(start_at, seq_1, seq_2) ==
    extract_loop(0, seq_1, seq_2, 0, <<>>, USIZE_MAX, <<>>)

extract_matching_sequences(start_at, seq_1, seq_2) ==
    extract_loop(start_at, seq_1, seq_2, 0, <<>>, USIZE_MAX, <<>>)

\* The body of the loop of refine_common_byte_sequences_v2 for the seed pairs
\* from position k on; final_sequences accumulates the result.
RECURSIVE refine_loop(_, _, _, _)
refine_loop(file_bytes, sequences, k, final_sequences) ==
    IF k > Len(sequences) THEN final_sequences
    ELSE LET index         == sequences[k][1]
             test_sequence == sequences[k][2]
             len           == Len(file_bytes)
         IN  IF index <= len
             THEN LET segment_read_length ==
                          Min(saturating_add(index, Len(test_sequence)), len)
                      subsequences ==
                          extract_matching_sequences(
                              index, test_sequence,
                              SubSeq(file_bytes, index + 1, segment_read_length))
                  IN  refine_loop(file_bytes, sequences, k + 1,
                                  final_sequences \o subsequences)
             ELSE refine_loop(file_bytes, sequences, k + 1, final_sequences)

\* Variant: the refined list is never stored back (the seed survives).
refine_without_store(file_bytes, sequences) == sequences

\* Variant: the refined pairs are appended to the list, the seed pairs stay.
refine_extending_sequences(file_bytes, sequences) ==
    sequences \o refine_loop(file_bytes, sequences, 1, <<>>)

refine_common_byte_sequences_v2(file_bytes, sequences) ==
    refine_loop(file_bytes, sequences, 1, <<>>)

\* The predicate of the retain call of strip_unwanted_sequences.
strip_retain(b) ==
    /\ \A i \in 1..Len(b) : b[i] # 0
    /\ Len(b) >= MIN_BYTE_SEQUENCE_LENGTH

strip_unwanted_sequences(sequences) ==
    SelectSeq(sequences, LAMBDA p : strip_retain(p[2]))

\* Variant: the list is left in the order the refinement produced.
sort_omitted(s) == {s}

\* sort_unstable_by_key(|b| Reverse(b.0)): every order the unstable sort may
\* leave, i.e. every permutation that is non-increasing by offset.
RECURSIVE sort_unstable_by_offset_reverse(_)
sort_unstable_by_offset_reverse(s) ==
    IF s = <<>> THEN {<<>>}
    ELSE LET mx   == CHOOSE m \in {s[i][1] : i \in 1..Len(s)} :
                        \A i \in 1..Len(s) : s[i][1] <= m
             tops == {i \in 1..Len(s) : s[i][1] = mx}
         IN  UNION {{<<s[i]>> \o t : t \in sort_unstable_by_offset_reverse(RemoveAt(s, i))}
                    : i \in tops}

---------------------------------------------------------------------------
(* file_processor.rs: strings.  An Option is a set with at most one element. *)

\* The number of consecutive iterations from byte i on that take the
\* readable branch without reaching the cut: the readable bytes from i on, at
\* most as many as string_buffer still takes.
readable_iterations(bytes, i, string_buffer) ==
    LET stops == {j \in i..Len(bytes) : ~ASCII_READABLE_CHARACTERS_SET[bytes[j]]}
        stop  == IF stops = {} THEN Len(bytes) + 1
                 ELSE CHOOSE j \in stops : \A k \in stops : j <= k
    IN  Min(stop - i, MAX_STRING_LENGTH - Len(string_buffer))

\* The loop of extract_file_strings from byte i on, with the locals strings
\* and string_buffer; the trailing insert at the end.  The iterations that
\* only push onto string_buffer are taken together.
RECURSIVE extract_strings_loop(_, _, _, _)
extract_strings_loop(bytes, i, strings, string_buffer) ==
    IF i > Len(bytes)
    THEN IF Len(string_buffer) >= MIN_STRING_LENGTH
         THEN strings \cup {string_buffer}
         ELSE strings
    ELSE IF ASCII_READABLE_CHARACTERS_SET[bytes[i]]
         THEN LET n   == readable_iterations(bytes, i, string_buffer)
                  buf == string_buffer \o
                             [k \in 1..n |-> ASCII_UPPERCASE_MAP[bytes[i + k - 1]]]
              IN
              IF Len(buf) = MAX_STRING_LENGTH
              THEN extract_strings_loop(bytes, i + n, strings \cup {buf}, <<>>)
              ELSE extract_strings_loop(bytes, i + n, strings, buf)
         ELSE IF Len(string_buffer) >= MIN_STRING_LENGTH
              THEN extract_strings_loop(bytes, i + 1, strings \cup {string_buffer}, <<>>)
              ELSE extract_strings_loop(bytes, i + 1, strings, <<>>)

\* Variant: a token that reaches the maximum length is cleared, not inserted.
extract_file_strings_cut_dropped(bytes) ==
    {t \in extract_strings_loop(bytes, 1, {}, <<>>) : Len(t) < MAX_STRING_LENGTH}

extract_file_strings(bytes) == extract_strings_loop(bytes, 1, {}, <<>>)

\* Variant: every needle is reported found at position 0.
find_slice_always_found(haystack, needle) == {0}

find_slice(haystack, needle) ==
    IF needle = <<>> THEN {0}
    ELSE IF Len(needle) > Len(haystack) THEN {}
    ELSE LET end  == Len(haystack) - Len(needle) + 1
             hits == {i \in 0..(end - 1) :
                         /\ haystack[i + 1] = needle[1]
                         /\ OccursAt(haystack, needle, i)}
         IN  IF hits = {} THEN {}
             ELSE {CHOOSE i \in hits : \A j \in hits : i <= j}

\* Variant: only the first bytes of the two slices are compared.
has_common_elements_first_only(seq_1, seq_2) ==
    seq_1 # <<>> /\ seq_2 # <<>> /\ seq_1[1] = seq_2[1]

has_common_elements(seq_1, seq_2) == Range(seq_1) \cap Range(seq_2) # {}

\* str::contains
str_contains(haystack, needle) == find_slice(haystack, needle) # {}

\* The windows of str_1 in the order largest_common_substring visits them:
\* sizes descending from size; within a size the first start position whose
\* window occurs in str_2.
RECURSIVE lcs_find(_, _, _)
lcs_find(str_1, str_2, size) ==
    IF size < MIN_STRING_LENGTH THEN {}
    ELSE LET hits == {i \in 0..(Len(str_1) - size) :
                         find_slice(str_2, SubSeq(str_1, i + 1, i + size)) # {}}
         IN  IF hits # {}
             THEN LET first == CHOOSE i \in hits : \A j \in hits : i <= j
                  IN  {SubSeq(str_1, first + 1, first + size)}
             ELSE lcs_find(str_1, str_2, size - 1)

largest_common_substring(str_1, str_2) ==
    IF str_1 = str_2 THEN {str_1}
    ELSE IF ~has_common_elements(str_1, str_2) THEN {}
    ELSE lcs_find(str_1, str_2, Len(str_1))

\* Every order a Vec collected from a HashSet may have.
RECURSIVE Perms(_)
Perms(S) ==
    IF S = {} THEN {<<>>}
    ELSE UNION {{<<x>> \o t : t \in Perms(S \ {x})} : x \in S}

\* sets.sort_unstable_by_key(|b| b.len()): every order the unstable sort may leave.
RECURSIVE sort_unstable_by_len(_)
sort_unstable_by_len(s) ==
    IF s = <<>> THEN {<<>>}
    ELSE LET mn   == CHOOSE m \in {Cardinality(s[i]) : i \in 1..Len(s)} :
                        \A i \in 1..Len(s) : Cardinality(s[i]) >= m
             lows == {i \in 1..Len(s) : Cardinality(s[i]) = mn}
         IN  UNION {{<<s[i]>> \o t : t \in sort_unstable_by_len(RemoveAt(s, i))}
                    : i \in lows}

\* The inner loop of common_string_sieve over common_strings[k..] against one
\* set: every new_common_strings the parallel max_by_key may produce (an
\* element of maximal length, any of them on a tie).
RECURSIVE sieve_inner(_, _, _)
sieve_inner(common_strings, set, k) ==
    IF k > Len(common_strings) THEN {<<>>}
    ELSE LET cands == UNION {largest_common_substring(string, common_strings[k])
                             : string \in set}
             rest  == sieve_inner(common_strings, set, k + 1)
         IN  IF cands = {} THEN rest
             ELSE LET ml   == CHOOSE m \in {Len(c) : c \in cands} :
                                 \A c \in cands : Len(c) <= m
                      best == {c \in cands : Len(c) = ml}
                  IN  {<<c>> \o r : c \in best, r \in rest}

\* Variant: the final filter keeps every string.
sieve_final_set_unfiltered(common_strings) == common_strings

\* The final filter of common_string_sieve.
sieve_final_set(common_strings) ==
    SelectSeq(common_strings,
              LAMBDA item : ~\E other \in Range(common_strings) :
                                other # item /\ str_contains(other, item))

\* The outer loop of common_string_sieve from set k on, then the final filter.
RECURSIVE sieve_outer(_, _, _)
sieve_outer(common_strings, sets, k) ==
    IF k >= Len(sets) THEN {sieve_final_set(common_strings)}
    ELSE UNION {IF new_common_strings = <<>> THEN {<<>>}
                ELSE sieve_outer(new_common_strings, sets, k + 1)
                : new_common_strings \in sieve_inner(common_strings, sets[k], 1)}

\* Every Vec common_string_sieve may return for the given sequence of sets.
common_string_sieve(sets) ==
    IF sets = <<>> THEN {<<>>}
    ELSE UNION {UNION {sieve_outer(common_strings, sorted, 1)
                       : common_strings \in Perms(sorted[Len(sorted)])}
                : sorted \in sort_unstable_by_len(sets)}

---------------------------------------------------------------------------
(* Histogram and entropy.  A histogram is indexed by the byte values that  *)
(* occur in buffers; every other bin of the [usize; 256] stays 0 and is    *)
(* skipped by calculate_shannon_entropy.                                   *)

EmptyFrequencies == [b \in Bytes |-> 0]

count_byte_frequencies(data, frequencies) ==
    [b \in Bytes |-> frequencies[b] + Cardinality({i \in 1..Len(data) : data[i] = b})]

\* count_byte_frequencies with the scheduling of the parallel iterator made
\* explicit.  par_chunks cuts the data into tiles; fold runs over groups of
\* consecutive tiles, each group starting from a zeroed array; reduce adds
\* the arrays of the groups pairwise, in any grouping and order.
BYTE_COUNT_CHUNK_SIZE == 512

par_chunks(data) ==
    [k \in 1..((Len(data) + BYTE_COUNT_CHUNK_SIZE - 1) \div BYTE_COUNT_CHUNK_SIZE) |->
        SubSeq(data, (k - 1) * BYTE_COUNT_CHUNK_SIZE + 1,
               Min(k * BYTE_COUNT_CHUNK_SIZE, Len(data)))]

\* The fold closure: local_frequencies[b] += 1 for every byte b of the chunk.
fold_chunk(local_frequencies, chunk) ==
    [b \in Bytes |->
        local_frequencies[b] + Cardinality({i \in 1..Len(chunk) : chunk[i] = b})]

\* Variant: the reduce closure keeps the later array instead of adding.
reduce_overwrite(acc, local) == local

\* The reduce closure: acc[i] += count for every bin.
reduce_add(acc, local) == [b \in Bytes |-> acc[b] + local[b]]

\* The array of the group of tiles from..to.
RECURSIVE fold_group(_, _, _)
fold_group(tiles, from, to) ==
    IF from > to THEN EmptyFrequencies
    ELSE fold_chunk(fold_group(tiles, from, to - 1), tiles[to])

\* The ways to cut tiles from..to into groups of consecutive tiles, each way
\* the sequence of the arrays of its groups.
RECURSIVE fold_groups(_, _, _)
fold_groups(tiles, from, to) ==
    IF from > to THEN {<<>>}
    ELSE UNION {{<<fold_group(tiles, from, cut)>> \o rest :
                    rest \in fold_groups(tiles, cut + 1, to)} : cut \in from..to}

\* Every result of reducing a sequence of arrays: the identity for none, and
\* any split into two parts reduced on their own and added in either order.
RECURSIVE reduce(_)
reduce(arrays) ==
    IF arrays = <<>> THEN {EmptyFrequencies}
    ELSE IF Len(arrays) = 1 THEN {reduce_add(EmptyFrequencies, arrays[1]), arrays[1]}
    ELSE UNION {{reduce_add(x, y), reduce_add(y, x)} :
                    <<x, y>> \in UNION {reduce(SubSeq(arrays, 1, cut))
                                            \X reduce(SubSeq(arrays, cut + 1, Len(arrays)))
                                        : cut \in 1..(Len(arrays) - 1)}}

\* Every array count_byte_frequencies may leave in *frequencies.
count_byte_frequencies_par(data, frequencies) ==
    LET tiles == par_chunks(data) IN
    {[b \in Bytes |-> accumulator[b] + frequencies[b]] :
        accumulator \in UNION {reduce(arrays) : arrays \in fold_groups(tiles, 1, Len(tiles))}}

RECURSIVE SumBins(_, _)
SumBins(frequencies, S) ==
    IF S = {} THEN 0
    ELSE LET b == CHOOSE x \in S : TRUE IN frequencies[b] + SumBins(frequencies, S \ {b})

\* f32::log2 of a fixed-point value in (0, 1]: the number of doublings that
\* bring x into [1, 2), then the fraction one binary digit at a time.
RECURSIVE log2_norm(_, _)
log2_norm(x, k) == IF x >= FP THEN <<x, k>> ELSE log2_norm(2 * x, k + 1)

RECURSIVE log2_frac(_, _, _)
log2_frac(y, unit, acc) ==
    IF unit = 0 THEN acc
    ELSE LET y2 == (y * y) \div FP IN
         IF y2 >= 2 * FP
         THEN log2_frac(y2 \div 2, unit \div 2, acc + unit)
         ELSE log2_frac(y2, unit \div 2, acc)

log2(x) ==
    LET n == log2_norm(x, 0) IN log2_frac(n[1], FP \div 2, 0) - n[2] * FP

\* The term probability * probability.log2() of one bin.
entropy_term(count, total_bytes) ==
    LET probability == (count * FP) \div total_bytes IN
    IF probability = 0 THEN 0
    ELSE (probability * log2(probability)) \div FP

RECURSIVE entropy_loop(_, _, _)
entropy_loop(frequencies, S, total_bytes) ==
    IF S = {} THEN 0
    ELSE LET b    == CHOOSE x \in S : TRUE
             rest == entropy_loop(frequencies, S \ {b}, total_bytes)
         IN  IF frequencies[b] = 0 THEN rest
             ELSE rest - entropy_term(frequencies[b], total_bytes)

calculate_shannon_entropy(frequencies) ==
    entropy_loop(frequencies, Bytes, SumBins(frequencies, Bytes))

---------------------------------------------------------------------------
(* utils.rs: get_file_extension.  A path is a sequence of byte values.     *)

LastIndexOf(s, c) ==
    LET hits == {i \in 1..Len(s) : s[i] = c} IN
    IF hits = {} THEN 0 ELSE CHOOSE i \in hits : \A j \in hits : j <= i

\* Path::extension of the last component, then to_uppercase; "" when the
\* name has no '.', or only a leading one.
get_file_extension(path) ==
    LET file_name == SubSeq(path, LastIndexOf(path, 47) + 1, Len(path))
        dot       == LastIndexOf(file_name, 46)
    IN  IF dot <= 1 THEN <<>>
        ELSE [i \in 1..(Len(file_name) - dot) |-> ASCII_UPPERCASE_MAP[file_name[dot + i]]]

---------------------------------------------------------------------------
(* pattern.rs: PatternData predicates and Pattern attributes               *)

should_scan_strings(data) == data.strings # {}
should_scan_sequences(data) == data.sequences # <<>>
\* Variant: composition is scanned whatever the average entropy is.
should_scan_composition_always(data) == TRUE
should_scan_composition(data) == data.average_entropy # 0

\* f32::round (half away from zero), f32::ceil, and the saturating cast to usize.
round(x) == IF x >= 0 THEN (x + FP \div 2) \div FP ELSE -((FP \div 2 - x) \div FP)
\* Variant: max_points rounded down instead of up.
ceil_as_floor(x) == x \div FP
ceil(x) == -((-x) \div FP)
as_usize(v) == IF v < 0 THEN 0 ELSE v

\* (total_scanned_files as f32).powf(1/3)
compute_confidence_factor(p) ==
    LET n == p.other_data.total_scanned_files * FP * FP * FP IN
    CHOOSE c \in 0..(FP * (p.other_data.total_scanned_files + 1)) :
        c * c * c <= n /\ (c + 1) * (c + 1) * (c + 1) > n

RECURSIVE SumSequenceLens(_, _)
SumSequenceLens(sequences, k) ==
    IF k > Len(sequences) THEN 0
    ELSE Len(sequences[k][2]) + SumSequenceLens(sequences, k + 1)

\* Pattern::compute_max_points for a pattern whose confidence_factor is set.
compute_max_points(p) ==
    LET seq_pts == IF should_scan_sequences(p.data)
                   THEN SumSequenceLens(p.data.sequences, 1) * FP ELSE 0
        str_pts == IF should_scan_strings(p.data)
                   THEN SumLens(p.data.strings) * FP ELSE 0
        ent_pts == IF should_scan_composition(p.data) THEN MAX_ENTROPY_POINTS ELSE 0
        points  == ((seq_pts + str_pts + ent_pts) * p.confidence_factor) \div FP
                       + FILE_EXTENSION_POINTS
    IN  as_usize(ceil(points))

\* Variant: the attributes are left as they are.
compute_attributes_skipped(p) == p

compute_attributes(p) ==
    LET q == [p EXCEPT !.confidence_factor = compute_confidence_factor(p)] IN
    [q EXCEPT !.max_points = compute_max_points(q)]

---------------------------------------------------------------------------
(* file_point_calculator.rs.  Points are fixed-point until the final round. *)

\* The loop of test_byte_sequences from pair k on: <<points, success>>.
RECURSIVE test_sequences_loop(_, _, _, _)
test_sequences_loop(sequences, bytes, k, points) ==
    IF k > Len(sequences) THEN <<points * FP, TRUE>>
    ELSE LET start    == sequences[k][1]
             sequence == sequences[k][2]
             len      == Len(sequence)
             end      == saturating_add(start, len)
         IN  IF start > Len(bytes) \/ end > Len(bytes) THEN <<0, FALSE>>
             ELSE IF sequence # SubSeq(bytes, start + 1, end) THEN <<0, FALSE>>
             ELSE test_sequences_loop(sequences, bytes, k + 1, points + len)

\* Variant: a failed pair does not fail the test.
test_byte_sequences_lenient(p, bytes) ==
    <<SumSequenceLens(p.data.sequences, 1) * FP, TRUE>>

test_byte_sequences(p, bytes) ==
    IF ~should_scan_sequences(p.data) \/ p.data.sequences = <<>> THEN <<0, TRUE>>
    ELSE test_sequences_loop(p.data.sequences, bytes, 1, 0)

test_entropy_deviation(p, frequencies) ==
    LET reference_entropy == p.data.average_entropy IN
    IF ~should_scan_composition(p.data) \/ reference_entropy = 0
    THEN MAX_ENTROPY_POINTS
    ELSE LET target_entropy  == calculate_shannon_entropy(frequencies)
             diff            == reference_entropy - target_entropy
             absolute_diff   == IF diff < 0 THEN -diff ELSE diff
             percentage_diff == IF reference_entropy > 0
                                THEN ((absolute_diff * FP) \div reference_entropy) * 100
                                ELSE 0
         IN  (MAX_ENTROPY_POINTS * (FP - percentage_diff \div 100)) \div FP

test_file_extension(p, path) ==
    LET ext == get_file_extension(path) IN
    IF \E i \in 1..Len(p.type_data.known_extensions) :
           p.type_data.known_extensions[i] = ext
    THEN FILE_EXTENSION_POINTS
    ELSE 0

\* Variant: a pattern string counts when it occurs inside an extracted string.
test_file_strings_contains(p, bytes) ==
    SumLens({str \in p.data.strings :
                \E token \in extract_file_strings(bytes) : str_contains(token, str)}) * FP

test_file_strings(p, bytes) ==
    IF ~should_scan_strings(p.data) \/ p.data.strings = {} THEN 0
    ELSE SumLens(p.data.strings \cap extract_file_strings(bytes)) * FP

\* Variant: the extension points are added before the confidence scaling.
compute_extension_scaled(p, chunk, path, apply_confidence) ==
    LET seq == test_byte_sequences(p, chunk) IN
    IF should_scan_sequences(p.data) /\ ~seq[2] THEN 0
    ELSE LET p3 == (IF should_scan_sequences(p.data) THEN seq[1] ELSE 0)
                   + (IF should_scan_strings(p.data)
                      THEN test_file_strings(p, chunk) ELSE 0)
                   + (IF should_scan_composition(p.data)
                      THEN test_entropy_deviation(
                               p, count_byte_frequencies(chunk, EmptyFrequencies))
                      ELSE 0)
                   + test_file_extension(p, path)
         IN  as_usize(round(IF apply_confidence
                            THEN (p3 * p.confidence_factor) \div FP ELSE p3))

\* FilePointCalculator::compute
compute(p, chunk, path, apply_confidence) ==
    LET frequencies ==
            IF should_scan_sequences(p.data) \/ should_scan_composition(p.data)
            THEN count_byte_frequencies(chunk, EmptyFrequencies)
            ELSE EmptyFrequencies
        seq == test_byte_sequences(p, chunk)
    IN  IF should_scan_sequences(p.data) /\ ~seq[2] THEN 0
        ELSE LET p1 == IF should_scan_sequences(p.data) THEN seq[1] ELSE 0
                 p2 == p1 + (IF should_scan_strings(p.data)
                             THEN test_file_strings(p, chunk) ELSE 0)
                 p3 == p2 + (IF should_scan_composition(p.data)
                             THEN test_entropy_deviation(p, frequencies) ELSE 0)
                 p4 == IF apply_confidence
                       THEN (p3 * p.confidence_factor) \div FP ELSE p3
                 p5 == p4 + test_file_extension(p, path)
             IN  as_usize(round(p5))

---------------------------------------------------------------------------
(* pattern.rs: persistence.  A JSON document is a record of the fields the *)
(* serializer writes; a field that may be left out is an Option.  A float  *)
(* is written as decimal text: sign, integer part and seven fraction       *)
(* digits.                                                                 *)

FRACTION_UNIT == 10 ^ 7

format_f32(x) ==
    LET abs == IF x < 0 THEN -x ELSE x IN
    [negative |-> x < 0,
     integer  |-> abs \div FP,
     fraction |-> (abs % FP) * (FRACTION_UNIT \div FP)]

parse_f32(text) ==
    LET abs == text.integer * FP + (text.fraction * FP) \div FRACTION_UNIT IN
    IF text.negative THEN -abs ELSE abs

default_extensions == <<>>

\* Variant: the strings are left out of the document.
serialize_without_strings(p) ==
    {[td |-> [uuid       |-> p.type_data.uuid,
              extensions |-> IF p.type_data.known_extensions = <<>>
                             THEN {} ELSE {p.type_data.known_extensions}],
      pd |-> [sequences       |-> p.data.sequences,
              strings         |-> <<>>,
              average_entropy |-> format_f32(p.data.average_entropy)],
      od |-> [total_scanned_files |-> p.other_data.total_scanned_files]]}

\* serde_json::to_string(pattern), as Pattern::write calls it: max_points and
\* confidence_factor are skipped, empty extensions are left out, the strings
\* are written in an iteration order of the HashSet.
serialize(p) ==
    {[td |-> [uuid       |-> p.type_data.uuid,
              extensions |-> IF p.type_data.known_extensions = <<>>
                             THEN {} ELSE {p.type_data.known_extensions}],
      pd |-> [sequences       |-> p.data.sequences,
              strings         |-> strings,
              average_entropy |-> format_f32(p.data.average_entropy)],
      od |-> [total_scanned_files |-> p.other_data.total_scanned_files]]
     : strings \in Perms(p.data.strings)}

\* A file of the pattern directory that is no pattern document.
NotAPattern == [td |-> <<>>, pd |-> <<>>, od |-> <<>>]

\* The derived Deserialize of Pattern: Err (no element) for a document that
\* is no pattern, else the pattern with the skipped fields at their defaults.
deserialize(json) ==
    IF json = NotAPattern THEN {}
    ELSE {[type_data  |-> [uuid             |-> json.td.uuid,
                           known_extensions |->
                               IF json.td.extensions = {} THEN default_extensions
                               ELSE CHOOSE e \in json.td.extensions : TRUE],
           data       |-> [sequences       |-> json.pd.sequences,
                           strings         |-> Range(json.pd.strings),
                           average_entropy |-> parse_f32(json.pd.average_entropy)],
           other_data |-> [total_scanned_files |-> json.od.total_scanned_files],
           max_points        |-> 0,
           confidence_factor |-> 0]}

from_json_str(input) == deserialize(input)

from_simd_json_str(input) == deserialize(input)

---------------------------------------------------------------------------
(* pattern_handler.rs: PatternHandler, and main.rs: match_patterns         *)

\* PatternHandler::read_parse_pattern: a document that parses is pushed with
\* its attributes computed, any other is skipped.
read_parse_pattern(patterns, contents) ==
    LET parsed == from_simd_json_str(contents) IN
    IF parsed = {} THEN patterns
    ELSE Append(patterns, compute_attributes(CHOOSE p \in parsed : TRUE))

\* PatternHandler::read over the listed files from file k on.
RECURSIVE read(_, _, _)
read(patterns, listing, k) ==
    IF k > Len(listing) THEN patterns
    ELSE read(read_parse_pattern(patterns, listing[k]), listing, k + 1)

\* utils::round_to_dp(points / max_points * 100.0, 1), in tenths of a percent;
\* a positive number divided by zero gives infinity, the largest value, and
\* zero divided by zero gives NaN.
INFINITY == USIZE_MAX
NAN == -1

percentage(points, max_points) ==
    IF max_points = 0 THEN (IF points = 0 THEN NAN ELSE INFINITY)
    ELSE (points * 2000 + max_points) \div (2 * max_points)

\* PatternMatch::new
PatternMatch(uuid, points, max_points) ==
    [uuid       |-> uuid,
     points     |-> points,
     max_points |-> max_points,
     percentage |-> percentage(points, max_points)]

\* Variant: a pattern with 0 points is kept too.
keep_match_non_negative(points) == points >= 0

\* Variant: a pattern is kept whatever its points are.
keep_match_always(points) == TRUE

\* The test of the filter_map closure of match_patterns.
keep_match(points) == points > 0

\* patterns.par_iter().filter_map(..).collect() from pattern k on: the matches
\* in the order of the patterns.
RECURSIVE filter_map(_, _, _, _)
filter_map(patterns, chunk, path, k) ==
    IF k > Len(patterns) THEN <<>>
    ELSE LET points == compute(patterns[k], chunk, path, TRUE)
             rest   == filter_map(patterns, chunk, path, k + 1)
         IN  IF keep_match(points)
             THEN <<PatternMatch(patterns[k].type_data.uuid, points,
                                 patterns[k].max_points)>> \o rest
             ELSE rest

\* Variant: the matches are left in the order of the patterns.
sort_by_percentage_omitted(s) == {s}

\* sort_unstable_by(|a, b| b.percentage.partial_cmp(&a.percentage)): every
\* order the unstable sort may leave.
RECURSIVE sort_unstable_by_percentage(_)
sort_unstable_by_percentage(s) ==
    IF s = <<>> THEN {<<>>}
    ELSE LET mx   == CHOOSE m \in {s[i].percentage : i \in 1..Len(s)} :
                        \A i \in 1..Len(s) : s[i].percentage <= m
             tops == {i \in 1..Len(s) : s[i].percentage = mx}
         IN  UNION {{<<s[i]>> \o t : t \in sort_unstable_by_percentage(RemoveAt(s, i))}
                    : i \in tops}

\* a.partial_cmp(&b) of two percentages: None (no element) when one is NaN.
partial_cmp(a, b) ==
    IF a = NAN \/ b = NAN THEN {}
    ELSE {IF a < b THEN "Less" ELSE IF a = b THEN "Equal" ELSE "Greater"}

\* The unwrap in the comparator of the sort panics: two matches are compared
\* and partial_cmp returns None.
sort_panics(matches) ==
    \E i, j \in DOMAIN matches :
        i # j /\ partial_cmp(matches[j].percentage, matches[i].percentage) = {}

\* match_patterns once the header chunk was read: every Vec it may return.
match_patterns(patterns, chunk, path) ==
    sort_unstable_by_percentage(filter_map(patterns, chunk, path, 1))

---------------------------------------------------------------------------
(* Inputs                                                                  *)

\* Generated headers: a run of one byte value (NUL alone, 'A' or 'B' once or
\* MaxRun times), optionally followed by one more byte; and the empty header.
RunLens == {1, MaxRun}
HeadRuns == {<<0>>} \cup {Rep(b, n) : b \in Bytes \ {0}, n \in RunLens}
Tails == {<<>>} \cup {<<b>> : b \in Bytes}
Headers == {<<>>} \cup {h \o t : h \in HeadRuns, t \in Tails}

\* The listings of a training directory.
TrainingSets == UNION {[1..n -> Headers] : n \in 0..MaxFiles}

\* "f.test", "f" and ".test": a path whose extension is known to the pattern,
\* one without a '.', and a file name that is only a leading '.' and "test".
Paths == {<<102, 46, 116, 101, 115, 116>>, <<102>>, <<46, 116, 101, 115, 116>>}

\* Variant: a new pattern starts with an average entropy of 1.
NewPatternWithEntropy ==
    [type_data         |-> [known_extensions |-> << <<84, 69, 83, 84>> >>, uuid |-> <<97>>],
     data              |-> [sequences |-> <<>>, strings |-> {}, average_entropy |-> FP],
     other_data        |-> [total_scanned_files |-> 0],
     max_points        |-> 0,
     confidence_factor |-> 0]

\* Pattern::new("valid", "test", vec!["test"], vec![]): the extension is
\* uppercased.
NewPattern ==
    [type_data         |-> [known_extensions |->
                               << [i \in 1..4 |-> ASCII_UPPERCASE_MAP[<<116, 101, 115, 116>>[i]]] >>,
                            uuid |-> <<97>>],
     data              |-> [sequences |-> <<>>, strings |-> {}, average_entropy |-> 0],
     other_data        |-> [total_scanned_files |-> 0],
     max_points        |-> 0,
     confidence_factor |-> 0]

NotScored == [chunk |-> <<>>, path |-> <<>>, apply_confidence |-> FALSE, points |-> -1]

\* No candidate file was named yet.
NoSample == [path |-> <<>>, readable |-> FALSE, chunk |-> <<>>]

---------------------------------------------------------------------------
(* Specification of a build: Pattern::new, build_patterns_from_data,       *)
(* compute_attributes, then scoring of the training samples.               *)

Init ==
    /\ files \in TrainingSets
    /\ scan_strings \in BOOLEAN
    /\ scan_byte_sequences \in BOOLEAN
    /\ scan_byte_distribution \in BOOLEAN
    /\ pc = "new"
    /\ first_byte_sequence_pass = TRUE
    /\ common_byte_sequences = <<>>
    /\ all_strings = <<>>
    /\ byte_distribution = EmptyFrequencies
    /\ pattern = NewPattern
    /\ scored = NotScored
    /\ sieve_sets = <<>>
    /\ sieve_result = <<>>
    /\ call_args = <<>>
    /\ call_result = <<>>
    /\ pattern_files = <<>>
    /\ handler_patterns = <<>>
    /\ sample = NoSample
    /\ point_store = <<>>

\* The loop over the sample files (pattern.rs 109-141) from file k on; loc
\* holds the locals first_byte_sequence_pass, common_byte_sequences,
\* all_strings and byte_distribution.
RECURSIVE build_loop(_, _, _, _, _, _)
build_loop(fs, k, do_strings, do_sequences, do_distribution, loc) ==
    IF k > Len(fs) THEN loc
    ELSE LET chunk == fs[k]
             dist  == IF do_distribution
                      THEN count_byte_frequencies(chunk, loc.byte_distribution)
                      ELSE loc.byte_distribution
             strs  == IF do_strings
                      THEN Append(loc.all_strings, extract_file_strings(chunk))
                      ELSE loc.all_strings
             seqs  == IF do_sequences /\ loc.first_byte_sequence_pass
                      THEN Append(loc.common_byte_sequences, <<0, chunk>>)
                      ELSE IF do_sequences
                           THEN refine_common_byte_sequences_v2(
                                    chunk, loc.common_byte_sequences)
                           ELSE loc.common_byte_sequences
         IN  build_loop(fs, k + 1, do_strings, do_sequences, do_distribution,
                        [first_byte_sequence_pass |->
                             loc.first_byte_sequence_pass /\ ~do_sequences,
                         common_byte_sequences    |-> seqs,
                         all_strings              |-> strs,
                         byte_distribution        |-> dist])

\* Pattern::build_patterns_from_data (pattern.rs 90-182).
BuildPatternsFromData ==
    /\ pc = "new"
    /\ LET loc == build_loop(files, 1, scan_strings, scan_byte_sequences,
                             scan_byte_distribution,
                             [first_byte_sequence_pass |-> first_byte_sequence_pass,
                              common_byte_sequences    |-> common_byte_sequences,
                              all_strings              |-> all_strings,
                              byte_distribution        |-> byte_distribution])
       IN
       /\ first_byte_sequence_pass' = loc.first_byte_sequence_pass
       /\ all_strings' = loc.all_strings
       /\ byte_distribution' = loc.byte_distribution
       /\ \E sorted \in (IF scan_byte_sequences
                         THEN sort_unstable_by_offset_reverse(
                                  strip_unwanted_sequences(loc.common_byte_sequences))
                         ELSE {loc.common_byte_sequences}) :
          \E common_strings \in (IF scan_strings
                                 THEN common_string_sieve(loc.all_strings)
                                 ELSE {<<>>}) :
             /\ common_byte_sequences' = sorted
             /\ pattern' =
                    [pattern EXCEPT
                        !.data.average_entropy =
                            IF scan_byte_distribution
                            THEN calculate_shannon_entropy(loc.byte_distribution)
                            ELSE @,
                        !.data.strings = Range(common_strings),
                        !.data.sequences = sorted,
                        !.other_data.total_scanned_files = Len(files)]
    /\ pc' = "built"
    /\ UNCHANGED <<files, scan_strings, scan_byte_sequences, scan_byte_distribution,
                   scored, sieve_sets, sieve_result,
                   call_vars, query_vars>>

\* Pattern::compute_attributes on the built or loaded pattern.
ComputeAttributes ==
    /\ pc = "built"
    /\ pattern' = compute_attributes(pattern)
    /\ pc' = "ready"
    /\ UNCHANGED <<files, scan_strings, scan_byte_sequences, scan_byte_distribution,
                   first_byte_sequence_pass, common_byte_sequences,
                   all_strings, byte_distribution, scored, sieve_sets, sieve_result,
                   call_vars, query_vars>>

\* FilePointCalculator::compute of the pattern against one of the chunks.
Compute(chunks, confidences) ==
    /\ pc = "ready"
    /\ \E chunk \in chunks, path \in Paths, apply_confidence \in confidences :
          scored' = [chunk            |-> chunk,
                     path             |-> path,
                     apply_confidence |-> apply_confidence,
                     points           |-> compute(pattern, chunk, path, apply_confidence)]
    /\ pc' = "scored"
    /\ UNCHANGED <<files, scan_strings, scan_byte_sequences, scan_byte_distribution,
                   first_byte_sequence_pass, common_byte_sequences,
                   all_strings, byte_distribution, pattern, sieve_sets, sieve_result,
                   call_vars, query_vars>>

\* match_patterns scores with apply_confidence = true; here the header of the
\* first training sample.
ComputeSample == Compute({files[i] : i \in {1} \cap DOMAIN files}, {TRUE})

Next == BuildPatternsFromData \/ ComputeAttributes \/ ComputeSample

Spec == Init /\ [][Next]_vars

---------------------------------------------------------------------------
(* Specification of scoring: a pattern as PatternHandler loads it (any     *)
(* data, the skipped fields max_points and confidence_factor at their      *)
(* defaults), compute_attributes, then compute against candidate chunks.   *)

\* Largest number of (offset, bytes) pairs, of strings, and of scanned files
\* of a loaded pattern.
MaxPairs == 2
MaxStrings == 2
MaxScanned == 2

PairPool == {<<0, <<65>>>>, <<1, <<66>>>>, <<MaxRun, <<65>>>>}

StringPool == {Rep(65, MaxRun), Rep(65, MaxRun) \o <<66>>, Rep(65, MIN_STRING_LENGTH)}

EntropyOf(chunk) == calculate_shannon_entropy(count_byte_frequencies(chunk, EmptyFrequencies))

EntropyPool == {0, -FP, EntropyOf(<<65, 66>>), EntropyOf(Rep(65, MaxRun) \o <<66>>)}

LoadedPatterns ==
    {[NewPattern EXCEPT
         !.data.sequences = sequences,
         !.data.strings = strings,
         !.data.average_entropy = average_entropy,
         !.other_data.total_scanned_files = total_scanned_files]
     : sequences \in UNION {[1..n -> PairPool] : n \in 0..MaxPairs},
       strings \in {S \in SUBSET StringPool : Cardinality(S) <= MaxStrings},
       average_entropy \in EntropyPool,
       total_scanned_files \in 0..MaxScanned}

InitScore ==
    /\ files = <<>>
    /\ scan_strings = FALSE
    /\ scan_byte_sequences = FALSE
    /\ scan_byte_distribution = FALSE
    /\ pc = "built"
    /\ first_byte_sequence_pass = TRUE
    /\ common_byte_sequences = <<>>
    /\ all_strings = <<>>
    /\ byte_distribution = EmptyFrequencies
    /\ pattern \in LoadedPatterns
    /\ scored = NotScored
    /\ sieve_sets = <<>>
    /\ sieve_result = <<>>
    /\ call_args = <<>>
    /\ call_result = <<>>
    /\ pattern_files = <<>>
    /\ handler_patterns = <<>>
    /\ sample = NoSample
    /\ point_store = <<>>

ComputeCandidate == Compute(Headers, BOOLEAN)

NextScore == ComputeAttributes \/ ComputeCandidate

SpecScore == InitScore /\ [][NextScore]_vars

---------------------------------------------------------------------------
(* Specification of a direct call of common_string_sieve.                  *)

\* Largest number of input sets and of strings per input set.
MaxSets == 2
MaxSetSize == 2

\* "AAAAA", "AAAAAB", "BAAAAA", "BAAAAAB", "ABAB"
SievePool ==
    {Rep(65, 5), Rep(65, 5) \o <<66>>, <<66>> \o Rep(65, 5),
     <<66>> \o Rep(65, 5) \o <<66>>, <<65, 66, 65, 66>>}

SieveSets == {S \in SUBSET SievePool : Cardinality(S) <= MaxSetSize}

InitSieve ==
    /\ files = <<>>
    /\ scan_strings = FALSE
    /\ scan_byte_sequences = FALSE
    /\ scan_byte_distribution = FALSE
    /\ pc = "sieve"
    /\ first_byte_sequence_pass = TRUE
    /\ common_byte_sequences = <<>>
    /\ all_strings = <<>>
    /\ byte_distribution = EmptyFrequencies
    /\ pattern = NewPattern
    /\ scored = NotScored
    /\ sieve_sets \in UNION {[1..n -> SieveSets] : n \in 0..MaxSets}
    /\ sieve_result = <<>>
    /\ call_args = <<>>
    /\ call_result = <<>>
    /\ pattern_files = <<>>
    /\ handler_patterns = <<>>
    /\ sample = NoSample
    /\ point_store = <<>>

\* common_string_sieve(sieve_sets)
Sieve ==
    /\ pc = "sieve"
    /\ \E result \in common_string_sieve(sieve_sets) : sieve_result' = result
    /\ pc' = "sieved"
    /\ UNCHANGED <<files, scan_strings, scan_byte_sequences, scan_byte_distribution,
                   first_byte_sequence_pass, common_byte_sequences, all_strings,
                   byte_distribution, pattern, scored, sieve_sets,
                   call_vars, query_vars>>

NextSieve == Sieve

SpecSieve == InitSieve /\ [][NextSieve]_vars

---------------------------------------------------------------------------
(* Specification of a direct call of extract_file_strings.                 *)

\* Largest number of segments a generated buffer is made of.
MaxSegments == 3

\* Lengths of readable segments: around the minimum and the maximum length
\* of a string, and a maximum-length token followed by a remainder.
SegmentLens ==
    {MIN_STRING_LENGTH - 1, MIN_STRING_LENGTH,
     MAX_STRING_LENGTH - 1, MAX_STRING_LENGTH,
     MAX_STRING_LENGTH + MIN_STRING_LENGTH - 1, MAX_STRING_LENGTH + MIN_STRING_LENGTH}

\* "aBaB..." of every segment length, and the unreadable bytes NUL and '"'.
Segments ==
    {[i \in 1..n |-> IF i % 2 = 1 THEN 97 ELSE 66] : n \in SegmentLens}
        \cup {<<0>>, <<34>>}

RECURSIVE Concat(_)
Concat(ss) == IF ss = <<>> THEN <<>> ELSE Head(ss) \o Concat(Tail(ss))

StringBuffers == {Concat(ss) : ss \in UNION {[1..n -> Segments] : n \in 0..MaxSegments}}

InitStrings ==
    /\ files = <<>>
    /\ scan_strings = FALSE
    /\ scan_byte_sequences = FALSE
    /\ scan_byte_distribution = FALSE
    /\ pc = "strings"
    /\ first_byte_sequence_pass = TRUE
    /\ common_byte_sequences = <<>>
    /\ all_strings = <<>>
    /\ byte_distribution = EmptyFrequencies
    /\ pattern = NewPattern
    /\ scored = NotScored
    /\ sieve_sets = <<>>
    /\ sieve_result = <<>>
    /\ call_args \in StringBuffers
    /\ call_result = {}
    /\ pattern_files = <<>>
    /\ handler_patterns = <<>>
    /\ sample = NoSample
    /\ point_store = <<>>

\* extract_file_strings(call_args)
ExtractFileStrings ==
    /\ pc = "strings"
    /\ call_result' = extract_file_strings(call_args)
    /\ pc' = "extracted"
    /\ UNCHANGED <<files, scan_strings, scan_byte_sequences, scan_byte_distribution,
                   first_byte_sequence_pass, common_byte_sequences, all_strings,
                   byte_distribution, pattern, scored, sieve_sets, sieve_result,
                   call_args, query_vars>>

NextStrings == ExtractFileStrings

SpecStrings == InitStrings /\ [][NextStrings]_vars

---------------------------------------------------------------------------
(* Specification of a direct call of count_byte_frequencies.               *)

\* Largest number of full tiles of a generated buffer.
MaxTiles == 2

\* Full tiles, and what follows the last full tile.
FullTiles ==
    {Rep(0, BYTE_COUNT_CHUNK_SIZE), Rep(65, BYTE_COUNT_CHUNK_SIZE),
     Rep(65, BYTE_COUNT_CHUNK_SIZE - 1) \o <<66>>}

PartialTiles == {<<>>, <<65>>, <<66, 0>>}

HistogramBuffers ==
    {Concat(ts) \o t : ts \in UNION {[1..n -> FullTiles] : n \in 0..MaxTiles},
                       t \in PartialTiles}

\* The array the caller passes: zeroed, or holding earlier counts.
EarlierFrequencies ==
    {EmptyFrequencies, count_byte_frequencies(<<0, 65, 65>>, EmptyFrequencies)}

InitHistogram ==
    /\ files = <<>>
    /\ scan_strings = FALSE
    /\ scan_byte_sequences = FALSE
    /\ scan_byte_distribution = FALSE
    /\ pc = "histogram"
    /\ first_byte_sequence_pass = TRUE
    /\ common_byte_sequences = <<>>
    /\ all_strings = <<>>
    /\ byte_distribution = EmptyFrequencies
    /\ pattern = NewPattern
    /\ scored = NotScored
    /\ sieve_sets = <<>>
    /\ sieve_result = <<>>
    /\ call_args \in [data : HistogramBuffers, frequencies : EarlierFrequencies]
    /\ call_result = EmptyFrequencies
    /\ pattern_files = <<>>
    /\ handler_patterns = <<>>
    /\ sample = NoSample
    /\ point_store = <<>>

\* count_byte_frequencies(call_args.data, &mut call_args.frequencies)
CountByteFrequencies ==
    /\ pc = "histogram"
    /\ \E frequencies \in count_byte_frequencies_par(call_args.data, call_args.frequencies) :
           call_result' = frequencies
    /\ pc' = "counted"
    /\ UNCHANGED <<files, scan_strings, scan_byte_sequences, scan_byte_distribution,
                   first_byte_sequence_pass, common_byte_sequences, all_strings,
                   byte_distribution, pattern, scored, sieve_sets, sieve_result,
                   call_args, query_vars>>

NextHistogram == CountByteFrequencies

SpecHistogram == InitHistogram /\ [][NextHistogram]_vars

---------------------------------------------------------------------------
(* Specification of persisting a pattern and loading it back: `pattern' is *)
(* written, pattern_files[1] is the file, call_result the parsed Result    *)
(* (no element for Err).                                                    *)

StoredPatterns ==
    {[p EXCEPT !.type_data.known_extensions = known_extensions]
     : p \in LoadedPatterns,
       known_extensions \in {<<>>, NewPattern.type_data.known_extensions}}

InitPersist ==
    /\ files = <<>>
    /\ scan_strings = FALSE
    /\ scan_byte_sequences = FALSE
    /\ scan_byte_distribution = FALSE
    /\ pc = "persist"
    /\ first_byte_sequence_pass = TRUE
    /\ common_byte_sequences = <<>>
    /\ all_strings = <<>>
    /\ byte_distribution = EmptyFrequencies
    /\ pattern \in StoredPatterns
    /\ scored = NotScored
    /\ sieve_sets = <<>>
    /\ sieve_result = <<>>
    /\ call_args = <<>>
    /\ call_result = {}
    /\ pattern_files = <<>>
    /\ handler_patterns = <<>>
    /\ sample = NoSample
    /\ point_store = <<>>

\* pattern.write(path)
Write ==
    /\ pc = "persist"
    /\ \E serialized \in serialize(pattern) : pattern_files' = <<serialized>>
    /\ pc' = "written"
    /\ UNCHANGED <<files, scan_strings, scan_byte_sequences, scan_byte_distribution,
                   first_byte_sequence_pass, common_byte_sequences, all_strings,
                   byte_distribution, pattern, scored, sieve_sets, sieve_result,
                   call_vars, handler_patterns, sample, point_store>>

\* Pattern::from_json_str(&contents)
FromJsonStr ==
    /\ pc = "written"
    /\ call_args' = "from_json_str"
    /\ call_result' = from_json_str(pattern_files[1])
    /\ pc' = "parsed"
    /\ UNCHANGED <<files, scan_strings, scan_byte_sequences, scan_byte_distribution,
                   first_byte_sequence_pass, common_byte_sequences, all_strings,
                   byte_distribution, pattern, scored, sieve_sets, sieve_result,
                   query_vars>>

\* Pattern::from_simd_json_str(&contents)
FromSimdJsonStr ==
    /\ pc = "written"
    /\ call_args' = "from_simd_json_str"
    /\ call_result' = from_simd_json_str(pattern_files[1])
    /\ pc' = "parsed"
    /\ UNCHANGED <<files, scan_strings, scan_byte_sequences, scan_byte_distribution,
                   first_byte_sequence_pass, common_byte_sequences, all_strings,
                   byte_distribution, pattern, scored, sieve_sets, sieve_result,
                   query_vars>>

NextPersist == Write \/ FromJsonStr \/ FromSimdJsonStr

SpecPersist == InitPersist /\ [][NextPersist]_vars

---------------------------------------------------------------------------
(* Specification of a query: pattern_files are the JSON files of the       *)
(* pattern directory in listing order, handler_patterns the patterns of    *)
(* the PatternHandler, sample the candidate file, point_store the Vec that *)
(* match_patterns returns.                                                  *)

\* Largest number of files in the pattern directory.
MaxPatterns == 2

Uuids == {<<96 + i>> : i \in 1..MaxPatterns}

\* The data of the stored patterns: no evidence, one pair, two pairs, with and
\* without an entropy.
QueryPatterns ==
    {[NewPattern EXCEPT
         !.data.sequences = sequences,
         !.data.average_entropy = average_entropy,
         !.other_data.total_scanned_files = MaxScanned]
     : sequences \in {<<>>, << <<0, <<65>>>> >>, << <<1, <<66>>>>, <<0, <<65>>>> >>},
       average_entropy \in {0, EntropyOf(<<65, 66>>)}}

\* The documents a file of the directory may hold.
QueryDocuments(uuid) ==
    {NotAPattern} \cup
    UNION {serialize([p EXCEPT !.type_data.uuid = uuid]) : p \in QueryPatterns}

\* The directories: up to MaxPatterns files, the patterns' uuids distinct.
PatternDirectories ==
    UNION {{listing \in [1..n -> UNION {QueryDocuments(u) : u \in Uuids}] :
               \A i, j \in 1..n :
                   (i # j /\ listing[i] # NotAPattern /\ listing[j] # NotAPattern)
                       => listing[i].td.uuid # listing[j].td.uuid}
           : n \in 0..MaxPatterns}

\* The candidates: readable files with a header, and a file that exists but
\* cannot be opened.
Samples ==
    [path : {<<102, 46, 116, 101, 115, 116>>, <<102>>}, readable : {TRUE},
     chunk : {<<>>, <<65, 66>>, <<66>>}]
    \cup {[path |-> <<102, 46, 116, 101, 115, 116>>, readable |-> FALSE, chunk |-> <<>>]}

\* file_processor::read_file_header_chunk(path): Err has no element.
read_file_header_chunk(file) == IF file.readable THEN {file.chunk} ELSE {}

InitQuery ==
    /\ files = <<>>
    /\ scan_strings = FALSE
    /\ scan_byte_sequences = FALSE
    /\ scan_byte_distribution = FALSE
    /\ pc = "load"
    /\ first_byte_sequence_pass = TRUE
    /\ common_byte_sequences = <<>>
    /\ all_strings = <<>>
    /\ byte_distribution = EmptyFrequencies
    /\ pattern = NewPattern
    /\ scored = NotScored
    /\ sieve_sets = <<>>
    /\ sieve_result = <<>>
    /\ call_args = <<>>
    /\ call_result = <<>>
    /\ pattern_files \in PatternDirectories
    /\ handler_patterns = <<>>
    /\ sample \in Samples
    /\ point_store = <<>>

\* pattern_handler.read(pattern_source, "")
Read ==
    /\ pc = "load"
    /\ handler_patterns' = read(handler_patterns, pattern_files, 1)
    /\ pc' = "loaded"
    /\ UNCHANGED <<files, scan_strings, scan_byte_sequences, scan_byte_distribution,
                   first_byte_sequence_pass, common_byte_sequences, all_strings,
                   byte_distribution, pattern, scored, sieve_sets, sieve_result,
                   call_vars, pattern_files, sample, point_store>>

\* match_patterns(&pattern_handler, sample.path): the expect panics when the
\* header chunk cannot be read, the unwrap when a comparison fails.
MatchPatterns ==
    /\ pc = "loaded"
    /\ LET chunk == read_file_header_chunk(sample) IN
       IF chunk = {} \/ sort_panics(filter_map(handler_patterns,
                                               CHOOSE c \in chunk : TRUE,
                                               sample.path, 1))
       THEN /\ pc' = "panicked"
            /\ UNCHANGED point_store
       ELSE /\ \E result \in match_patterns(handler_patterns,
                                             CHOOSE c \in chunk : TRUE, sample.path) :
                   point_store' = result
            /\ pc' = "matched"
    /\ UNCHANGED <<files, scan_strings, scan_byte_sequences, scan_byte_distribution,
                   first_byte_sequence_pass, common_byte_sequences, all_strings,
                   byte_distribution, pattern, scored, sieve_sets, sieve_result,
                   call_vars, pattern_files, handler_patterns, sample>>

NextQuery == Read \/ MatchPatterns

SpecQuery == InitQuery /\ [][NextQuery]_vars

---------------------------------------------------------------------------
(* Specification of the command line: call_args is the parsed command     *)
(* with the state of the file system it meets, call_result the exit code  *)
(* of the process and the message written to stderr.                      *)

\* The exit code of a process whose main returns, and of one that panics.
EXIT_SUCCESS == 0
EXIT_PANIC == 101

Running == [exit_code |-> -1, stderr |-> ""]

Exited(exit_code, stderr) == [exit_code |-> exit_code, stderr |-> stderr]

\* extension.trim_start_matches('.')
RECURSIVE trim_start_matches(_, _)
trim_start_matches(str, c) ==
    IF str # <<>> /\ str[1] = c THEN trim_start_matches(Tail(str), c) ELSE str

to_uppercase(str) == [i \in 1..Len(str) |-> ASCII_UPPERCASE_MAP[str[i]]]

\* The pattern command: EXT as typed, whether PATH is a directory, the
\* headers of the files of type EXT in it, the three flags, and OUTPUT_DIR
\* (none, or whether it is a directory).
PatternCommands ==
    [command          : {"pattern"},
     extension        : {<<>>, <<46>>, <<116, 101, 115, 116>>, <<46, 116, 101, 115, 116>>},
     path_exists      : BOOLEAN,
     samples          : {t \in TrainingSets : Len(t) <= 1},
     no_strings       : BOOLEAN,
     no_sequences     : BOOLEAN,
     no_composition   : BOOLEAN,
     output_directory : {{}, {TRUE}, {FALSE}}]

\* The identify command: whether FILE is a file and the pattern source is a
\* directory, the JSON files in it, the candidate, and --result-count.
IdentifyCommands ==
    [command       : {"identify"},
     file_exists   : BOOLEAN,
     source_exists : BOOLEAN,
     directory     : {d \in PatternDirectories : Len(d) <= 1},
     file          : Samples,
     result_count  : {-1, 1}]

InitCli ==
    /\ files = <<>>
    /\ scan_strings = FALSE
    /\ scan_byte_sequences = FALSE
    /\ scan_byte_distribution = FALSE
    /\ pc = "main"
    /\ first_byte_sequence_pass = TRUE
    /\ common_byte_sequences = <<>>
    /\ all_strings = <<>>
    /\ byte_distribution = EmptyFrequencies
    /\ pattern = NewPattern
    /\ scored = NotScored
    /\ sieve_sets = <<>>
    /\ sieve_result = <<>>
    /\ call_args \in PatternCommands \cup IdentifyCommands
    /\ call_result = Running
    /\ pattern_files = <<>>
    /\ handler_patterns = <<>>
    /\ sample = NoSample
    /\ point_store = <<>>

\* process_pattern_command up to the call of build_patterns_from_data
\* (main.rs 253-316): a failed validation prints and returns.
ProcessPatternCommand ==
    /\ pc = "main"
    /\ call_args.command = "pattern"
    /\ LET extension == trim_start_matches(call_args.extension, 46) IN
       IF ~call_args.path_exists
       THEN /\ call_result' = Exited(EXIT_SUCCESS, "The specified target folder doesn't exist.")
            /\ pc' = "exited"
            /\ UNCHANGED <<files, scan_strings, scan_byte_sequences,
                           scan_byte_distribution, pattern>>
       ELSE IF extension = <<>>
       THEN /\ call_result' = Exited(EXIT_SUCCESS, "The target extension may not be empty.")
            /\ pc' = "exited"
            /\ UNCHANGED <<files, scan_strings, scan_byte_sequences,
                           scan_byte_distribution, pattern>>
       ELSE IF call_args.no_strings /\ call_args.no_sequences /\ call_args.no_composition
       THEN /\ call_result' = Exited(EXIT_SUCCESS, "No pattern matching options were enabled.")
            /\ pc' = "exited"
            /\ UNCHANGED <<files, scan_strings, scan_byte_sequences,
                           scan_byte_distribution, pattern>>
       ELSE /\ pattern' = [NewPattern EXCEPT
                              !.type_data.known_extensions = <<to_uppercase(extension)>>]
            /\ files' = call_args.samples
            /\ scan_strings' = ~call_args.no_strings
            /\ scan_byte_sequences' = ~call_args.no_sequences
            /\ scan_byte_distribution' = ~call_args.no_composition
            /\ call_result' = call_result
            /\ pc' = "new"
    /\ UNCHANGED <<first_byte_sequence_pass, common_byte_sequences, all_strings,
                   byte_distribution, scored, sieve_sets, sieve_result, call_args,
                   query_vars>>

\* process_pattern_command after build_patterns_from_data (main.rs 320-337):
\* the pattern is written to OUTPUT_DIR or printed, and main returns.
WritePatternFile ==
    /\ pc = "built"
    /\ IF call_args.output_directory = {TRUE}
       THEN \E serialized \in serialize(pattern) : pattern_files' = <<serialized>>
       ELSE UNCHANGED pattern_files
    /\ call_result' = Exited(EXIT_SUCCESS, "")
    /\ pc' = "exited"
    /\ UNCHANGED <<files, scan_strings, scan_byte_sequences, scan_byte_distribution,
                   first_byte_sequence_pass, common_byte_sequences, all_strings,
                   byte_distribution, pattern, scored, sieve_sets, sieve_result,
                   call_args, handler_patterns, sample, point_store>>

\* results.truncate(result_count as usize) unless result_count is -1.
truncate(results, result_count) ==
    IF result_count = -1 THEN results
    ELSE SubSeq(results, 1, Min(Len(results), result_count))

\* process_identify_command (main.rs 223-251) with built_pattern_handler and
\* match_patterns.
ProcessIdentifyCommand ==
    /\ pc = "main"
    /\ call_args.command = "identify"
    /\ LET loaded == IF call_args.source_exists
                     THEN read(<<>>, call_args.directory, 1) ELSE <<>>
           chunk  == read_file_header_chunk(call_args.file)
       IN
       IF ~call_args.file_exists
       THEN /\ call_result' = Exited(EXIT_SUCCESS, "The specified sample file path doesn't exist.")
            /\ UNCHANGED <<handler_patterns, sample, point_store>>
       ELSE IF loaded = <<>>
       THEN /\ call_result' = Exited(EXIT_SUCCESS, "No applicable patterns were found.")
            /\ handler_patterns' = loaded
            /\ UNCHANGED <<sample, point_store>>
       ELSE IF chunk = {} \/ sort_panics(filter_map(loaded, CHOOSE c \in chunk : TRUE,
                                                    call_args.file.path, 1))
       THEN /\ call_result' = Exited(EXIT_PANIC, "panicked")
            /\ handler_patterns' = loaded
            /\ sample' = call_args.file
            /\ UNCHANGED point_store
       ELSE /\ \E results \in match_patterns(loaded, CHOOSE c \in chunk : TRUE,
                                              call_args.file.path) :
                   point_store' = truncate(results, call_args.result_count)
            /\ call_result' = Exited(EXIT_SUCCESS, "")
            /\ handler_patterns' = loaded
            /\ sample' = call_args.file
    /\ pc' = "exited"
    /\ UNCHANGED <<files, scan_strings, scan_byte_sequences, scan_byte_distribution,
                   first_byte_sequence_pass, common_byte_sequences, all_strings,
                   byte_distribution, pattern, scored, sieve_sets, sieve_result,
                   call_args, pattern_files>>

NextCli ==
    \/ ProcessPatternCommand
    \/ BuildPatternsFromData
    \/ WritePatternFile
    \/ ProcessIdentifyCommand

SpecCli == InitCli /\ [][NextCli]_vars

---------------------------------------------------------------------------
(* Specification of a direct call of refine_common_byte_sequences_v2:      *)
(* call_args holds file_bytes and the sequences before the call,           *)
(* call_result the sequences after it.                                     *)

\* Run lengths around the cuts at MAX_BYTE_SEQUENCE_LENGTH.
RefineRunLens ==
    {1, MAX_BYTE_SEQUENCE_LENGTH - 1, MAX_BYTE_SEQUENCE_LENGTH,
     MAX_BYTE_SEQUENCE_LENGTH + 1, 2 * MAX_BYTE_SEQUENCE_LENGTH,
     2 * MAX_BYTE_SEQUENCE_LENGTH + 1}

\* Headers: a run of "A", then nothing, "B" or "A", then nothing or a run.
RefineChunks ==
    {head \o middle \o tail :
        head   \in {<<>>} \cup {Rep(65, n) : n \in RefineRunLens},
        middle \in {<<>>, <<66>>, <<65>>},
        tail   \in {<<>>} \cup {Rep(65, n) : n \in RefineRunLens}}

\* The list after the seed (pattern.rs 130-134), the lists after one
\* refinement of it, and lists a caller may pass with offsets at the end of
\* the integer range.
RefineSeeds ==
    {<< <<0, chunk>> >> : chunk \in RefineChunks}
    \cup {refine_common_byte_sequences_v2(second, << <<0, first>> >>) :
              first \in RefineChunks, second \in RefineChunks}
    \cup {<< <<0, <<65, 65>>>>, <<2, <<65, 65>>>>, <<offset, <<65, 65>>>> >> :
              offset \in {USIZE_MAX, USIZE_MAX - 1, USIZE_MAX - 2}}

InitRefine ==
    /\ files = <<>>
    /\ scan_strings = FALSE
    /\ scan_byte_sequences = FALSE
    /\ scan_byte_distribution = FALSE
    /\ pc = "refine"
    /\ first_byte_sequence_pass = TRUE
    /\ common_byte_sequences = <<>>
    /\ all_strings = <<>>
    /\ byte_distribution = EmptyFrequencies
    /\ pattern = NewPattern
    /\ scored = NotScored
    /\ sieve_sets = <<>>
    /\ sieve_result = <<>>
    /\ call_args \in [file_bytes : RefineChunks, sequences : RefineSeeds]
    /\ call_result = <<>>
    /\ pattern_files = <<>>
    /\ handler_patterns = <<>>
    /\ sample = NoSample
    /\ point_store = <<>>

\* refine_common_byte_sequences_v2(&call_args.file_bytes, &mut sequences)
Refine ==
    /\ pc = "refine"
    /\ call_result' =
           refine_common_byte_sequences_v2(call_args.file_bytes, call_args.sequences)
    /\ pc' = "refined"
    /\ UNCHANGED <<files, scan_strings, scan_byte_sequences, scan_byte_distribution,
                   first_byte_sequence_pass, common_byte_sequences, all_strings,
                   byte_distribution, pattern, scored, sieve_sets, sieve_result,
                   call_args, query_vars>>

NextRefine == Refine

SpecRefine == InitRefine /\ [][NextRefine]_vars

---------------------------------------------------------------------------
(* Specification of a direct call of largest_common_substring: call_args   *)
(* holds str_1 and str_2, call_result the Option returned.                 *)

\* String lengths around MIN_STRING_LENGTH.
LcsLens == (MIN_STRING_LENGTH - 1)..(MIN_STRING_LENGTH + 2)

\* Strings of "A" and "B" of these lengths, the empty string, and strings
\* that share no byte or one byte with them.
LcsStrings ==
    UNION {[1..n -> {65, 66}] : n \in LcsLens}
    \cup {<<>>, Rep(67, MIN_STRING_LENGTH), Rep(67, MIN_STRING_LENGTH) \o <<65>>}

InitLcs ==
    /\ files = <<>>
    /\ scan_strings = FALSE
    /\ scan_byte_sequences = FALSE
    /\ scan_byte_distribution = FALSE
    /\ pc = "lcs"
    /\ first_byte_sequence_pass = TRUE
    /\ common_byte_sequences = <<>>
    /\ all_strings = <<>>
    /\ byte_distribution = EmptyFrequencies
    /\ pattern = NewPattern
    /\ scored = NotScored
    /\ sieve_sets = <<>>
    /\ sieve_result = <<>>
    /\ call_args \in [str_1 : LcsStrings, str_2 : LcsStrings]
    /\ call_result = {}
    /\ pattern_files = <<>>
    /\ handler_patterns = <<>>
    /\ sample = NoSample
    /\ point_store = <<>>

\* largest_common_substring(call_args.str_1, call_args.str_2)
LargestCommonSubstring ==
    /\ pc = "lcs"
    /\ call_result' = largest_common_substring(call_args.str_1, call_args.str_2)
    /\ pc' = "lcs_done"
    /\ UNCHANGED <<files, scan_strings, scan_byte_sequences, scan_byte_distribution,
                   first_byte_sequence_pass, common_byte_sequences, all_strings,
                   byte_distribution, pattern, scored, sieve_sets, sieve_result,
                   call_args, query_vars>>

NextLcs == LargestCommonSubstring

SpecLcs == InitLcs /\ [][NextLcs]_vars

---------------------------------------------------------------------------
(* Specification of ranking over any patterns a handler may hold: as       *)
(* deserialized (max_points and confidence_factor 0), with the attributes  *)
(* computed, or with attributes that do not fit the data.                  *)

RankPatterns ==
    UNION {{p, compute_attributes(p), [compute_attributes(p) EXCEPT !.max_points = 0]}
           : p \in {q \in QueryPatterns : q.data.average_entropy = 0}}

\* The handlers: up to MaxPatterns patterns with distinct uuids.
RankHandlers ==
    UNION {{[i \in 1..n |-> [patterns[i] EXCEPT !.type_data.uuid = uuids[i]]] :
               patterns \in [1..n -> RankPatterns],
               uuids \in {u \in [1..n -> Uuids] :
                             \A i, j \in 1..n : i # j => u[i] # u[j]}}
           : n \in 0..MaxPatterns}

InitRank ==
    /\ files = <<>>
    /\ scan_strings = FALSE
    /\ scan_byte_sequences = FALSE
    /\ scan_byte_distribution = FALSE
    /\ pc = "loaded"
    /\ first_byte_sequence_pass = TRUE
    /\ common_byte_sequences = <<>>
    /\ all_strings = <<>>
    /\ byte_distribution = EmptyFrequencies
    /\ pattern = NewPattern
    /\ scored = NotScored
    /\ sieve_sets = <<>>
    /\ sieve_result = <<>>
    /\ call_args = <<>>
    /\ call_result = <<>>
    /\ pattern_files = <<>>
    /\ handler_patterns \in RankHandlers
    /\ sample \in {s \in Samples : s.readable /\ s.chunk # <<>>}
    /\ point_store = <<>>

NextRank == MatchPatterns

SpecRank == InitRank /\ [][NextRank]_vars

---------------------------------------------------------------------------
(* Specification of a build from three samples: the listing of the         *)
(* training directory in every order, sequences only.                      *)

\* Number of sample files of these training directories.
OrderFiles == 3

\* Headers with runs around MAX_BYTE_SEQUENCE_LENGTH: 'A' repeated, with 'A'
\* or 'B' at position 0 and at position MAX_BYTE_SEQUENCE_LENGTH, optionally
\* followed by a 'B'.
OrderHeaders ==
    {<<b>> \o Rep(65, MAX_BYTE_SEQUENCE_LENGTH - 1) \o <<c>> \o Rep(65, 3) \o t :
        b \in Bytes \ {0}, c \in Bytes \ {0}, t \in {<<>>, <<66>>}}

InitOrder ==
    /\ files \in [1..OrderFiles -> OrderHeaders]
    /\ scan_strings = FALSE
    /\ scan_byte_sequences = TRUE
    /\ scan_byte_distribution = FALSE
    /\ pc = "new"
    /\ first_byte_sequence_pass = TRUE
    /\ common_byte_sequences = <<>>
    /\ all_strings = <<>>
    /\ byte_distribution = EmptyFrequencies
    /\ pattern = NewPattern
    /\ scored = NotScored
    /\ sieve_sets = <<>>
    /\ sieve_result = <<>>
    /\ call_args = <<>>
    /\ call_result = <<>>
    /\ pattern_files = <<>>
    /\ handler_patterns = <<>>
    /\ sample = NoSample
    /\ point_store = <<>>

NextOrder == BuildPatternsFromData

SpecOrder == InitOrder /\ [][NextOrder]_vars

---------------------------------------------------------------------------
(* Properties                                                              *)

\* An (offset, expected) pair fails on a buffer.
PairFails(pair, buffer) ==
    \/ pair[1] > Len(buffer)
    \/ pair[1] + Len(pair[2]) > Len(buffer)
    \/ \E k \in 1..Len(pair[2]) : buffer[pair[1] + k] # pair[2][k]

AnyPairFails(p, buffer) ==
    \E k \in 1..Len(p.data.sequences) : PairFails(p.data.sequences[k], buffer)

KnownExtension(p, path) ==
    get_file_extension(path) \in Range(p.type_data.known_extensions)

IsSubstring(x, y) == \E off \in 0..(Len(y) - Len(x)) : OccursAt(y, x, off)

\* C1: compute returns exactly 0 for every pattern with a non-empty
\* sequences list and every buffer on which at least one (offset, expected)
\* pair fails, whatever the strings, the entropy and the extension are.
C1_FailedSequenceScoresZero ==
    (pc = "scored" /\ pattern.data.sequences # <<>> /\ AnyPairFails(pattern, scored.chunk))
        => scored.points = 0

\* A pair fails while another pair matches, a pattern string is a token of
\* the buffer and the extension is known.
C1_Witness ==
    /\ pc = "scored"
    /\ AnyPairFails(pattern, scored.chunk)
    /\ \E k \in 1..Len(pattern.data.sequences) :
           ~PairFails(pattern.data.sequences[k], scored.chunk)
    /\ pattern.data.strings \cap extract_file_strings(scored.chunk) # {}
    /\ pattern.data.average_entropy # 0
    /\ KnownExtension(pattern, scored.path)
    /\ scored.points = 0

\* C2: with attributes computed by compute_attributes, the score with
\* apply_confidence = true never exceeds the pattern's max_points.
C2_ScoreAtMostMaxPoints ==
    (pc = "scored" /\ scored.apply_confidence) => scored.points <= pattern.max_points

\* A score that reaches max_points with scaled evidence in it.
C2_Witness ==
    /\ pc = "scored"
    /\ scored.apply_confidence
    /\ pattern.other_data.total_scanned_files = MaxScanned
    /\ pattern.data.sequences # <<>>
    /\ pattern.data.strings # {}
    /\ scored.points = pattern.max_points

\* A candidate that matches every sequence, yields every pattern string as a
\* token, has the pattern's average entropy and a known extension.
PerfectMatch(p, chunk, path) ==
    /\ ~AnyPairFails(p, chunk)
    /\ p.data.strings \subseteq extract_file_strings(chunk)
    /\ EntropyOf(chunk) = p.data.average_entropy
    /\ KnownExtension(p, path)

\* C3: a perfect match scores exactly max_points (match percentage 100.0),
\* for every total_scanned_files.
C3_PerfectMatchScoresMaxPoints ==
    (pc = "scored" /\ scored.apply_confidence
        /\ PerfectMatch(pattern, scored.chunk, scored.path))
        => scored.points = pattern.max_points

HasEvidence(p) ==
    p.data.sequences # <<>> \/ p.data.strings # {} \/ p.data.average_entropy # 0

\* C4: when the built pattern holds any evidence, the header of the first
\* training file scores more than 0 against it (scored under the sample's
\* own path, whose extension the pattern knows).
C4_FirstSampleScoresPositive ==
    (pc = "scored" /\ HasEvidence(pattern) /\ KnownExtension(pattern, scored.path))
        => scored.points > 0

\* C5: every (offset, bytes) pair of a pattern built from N >= 1 samples
\* matches every sample, so the scorer's sequence test passes for each.
C5_SequencesMatchEverySample ==
    (pc # "new" /\ Len(files) >= 1) =>
        \A j \in 1..Len(files) :
            /\ \A k \in 1..Len(pattern.data.sequences) :
                   /\ pattern.data.sequences[k][1] + Len(pattern.data.sequences[k][2])
                          <= Len(files[j])
                   /\ OccursAt(files[j], pattern.data.sequences[k][2],
                               pattern.data.sequences[k][1])
            /\ test_byte_sequences(pattern, files[j])[2]

\* Two different samples were refined into at least one common pair.
C5_Witness ==
    /\ pc = "built"
    /\ Len(files) = 2
    /\ files[1] # files[2]
    /\ Len(files[1]) > Len(files[2])
    /\ pattern.data.sequences # <<>>

\* C6: with sequence scanning enabled, every pair of the built pattern has
\* between 1 and 16 bytes, for any number of samples, one included.
C6_SequenceLengthBounds ==
    (pc # "new" /\ scan_byte_sequences) =>
        \A k \in 1..Len(pattern.data.sequences) :
            /\ Len(pattern.data.sequences[k][2]) >= MIN_BYTE_SEQUENCE_LENGTH
            /\ Len(pattern.data.sequences[k][2]) <= MAX_BYTE_SEQUENCE_LENGTH

\* The common sequences as the loop over the samples leaves them, before
\* strip_unwanted_sequences and the sort.
RefinedSequences ==
    build_loop(files, 1, scan_strings, scan_byte_sequences, scan_byte_distribution,
               [first_byte_sequence_pass |-> TRUE,
                common_byte_sequences    |-> <<>>,
                all_strings              |-> <<>>,
                byte_distribution        |-> EmptyFrequencies]).common_byte_sequences

\* C7: finalization drops a pair if and only if its bytes are all zero or
\* its length is below 1; a pair with a non-zero byte is retained.
C7_StripsOnlyAllZero ==
    (pc # "new" /\ scan_byte_sequences) =>
        \A k \in 1..Len(RefinedSequences) :
            LET b == RefinedSequences[k][2] IN
            (RefinedSequences[k] \notin Range(pattern.data.sequences))
                <=> ((\A i \in 1..Len(b) : b[i] = 0) \/ Len(b) < 1)

\* C8: with sequence scanning enabled, the sequences of the built pattern
\* are sorted by offset, descending.
C8_SortedByOffsetDescending ==
    (pc # "new" /\ scan_byte_sequences) =>
        \A i \in 1..Len(pattern.data.sequences) :
            \A j \in (i + 1)..Len(pattern.data.sequences) :
                pattern.data.sequences[i][1] >= pattern.data.sequences[j][1]

\* Two samples left at least two pairs.
C8_Witness ==
    /\ pc = "built"
    /\ scan_byte_sequences
    /\ Len(files) = 2
    /\ Len(pattern.data.sequences) >= 2

\* C9: every element common_string_sieve returns is a substring of at
\* least one string of every input set.
C9_SieveElementsOccurInEverySet ==
    pc = "sieved" =>
        \A i \in 1..Len(sieve_result) :
            \A k \in 1..Len(sieve_sets) :
                \E s \in sieve_sets[k] : IsSubstring(sieve_result[i], s)

\* Two sets yield a common substring that is an element of neither.
C9_Witness ==
    /\ pc = "sieved"
    /\ Len(sieve_sets) = 2
    /\ \E i \in 1..Len(sieve_result) :
           sieve_result[i] \notin (sieve_sets[1] \cup sieve_sets[2])

\* C10: no element common_string_sieve returns is a proper substring of
\* another returned element.
C10_SieveNoProperSubstrings ==
    pc = "sieved" =>
        \A i \in 1..Len(sieve_result) :
            \A j \in 1..Len(sieve_result) :
                ~(sieve_result[i] # sieve_result[j]
                      /\ IsSubstring(sieve_result[i], sieve_result[j]))

\* {"BAAAAAB"} against {"AAAAAB", "AAAAA"}: both strings survive the loop and
\* the final filter drops "AAAAA".
C10_Witness ==
    /\ pc = "sieved"
    /\ sieve_sets = << {<<66>> \o Rep(65, 5) \o <<66>>},
                       {Rep(65, 5) \o <<66>>, Rep(65, 5)} >>
    /\ sieve_result = << Rep(65, 5) \o <<66>> >>

\* The first positions of the maximal runs of readable bytes of a buffer, and
\* the last position of the run that starts at i.
RunStarts(bytes) ==
    {i \in 1..Len(bytes) :
        /\ ASCII_READABLE_CHARACTERS_SET[bytes[i]]
        /\ (i = 1 \/ ~ASCII_READABLE_CHARACTERS_SET[bytes[i - 1]])}

RunEnd(bytes, i) ==
    CHOOSE j \in i..Len(bytes) :
        /\ \A k \in i..j : ASCII_READABLE_CHARACTERS_SET[bytes[k]]
        /\ (j = Len(bytes) \/ ~ASCII_READABLE_CHARACTERS_SET[bytes[j + 1]])

\* The run i..j uppercased and cut from its start into consecutive tokens of
\* the maximum length and a shorter remainder; the tokens that are kept.
TokensOfRun(bytes, i, j) ==
    LET token(k) ==
            [n \in 1..Min(MAX_STRING_LENGTH, j - i + 1 - k * MAX_STRING_LENGTH) |->
                 ASCII_UPPERCASE_MAP[bytes[i + k * MAX_STRING_LENGTH + n - 1]]]
        tokens == {token(k) : k \in 0..((j - i) \div MAX_STRING_LENGTH)}
    IN  {t \in tokens : Len(t) = MAX_STRING_LENGTH \/ Len(t) >= MIN_STRING_LENGTH}

ExpectedStrings(bytes) ==
    UNION {TokensOfRun(bytes, i, RunEnd(bytes, i)) : i \in RunStarts(bytes)}

\* C11: extract_file_strings returns exactly the kept tokens of the maximal
\* readable runs (uppercased, cut every 64 characters from the run's start,
\* remainders kept from 5 characters on); so every string has 5 to 64
\* characters, all of them uppercased readable characters.
C11_ExtractedStringsAreRunTokens ==
    pc = "extracted" =>
        /\ call_result = ExpectedStrings(call_args)
        /\ \A t \in call_result :
               /\ Len(t) >= MIN_STRING_LENGTH
               /\ Len(t) <= MAX_STRING_LENGTH
               /\ \A n \in 1..Len(t) :
                      \E c \in ASCII_READABLE_CHARACTERS : t[n] = ASCII_UPPERCASE_MAP[c]

\* A run longer than 64 characters gives a full token and a kept remainder,
\* while another run of the buffer is too short to be kept.
C11_Witness ==
    /\ pc = "extracted"
    /\ \E t \in call_result : Len(t) = MAX_STRING_LENGTH
    /\ \E t \in call_result : Len(t) = MIN_STRING_LENGTH
    /\ \E i \in RunStarts(call_args) :
           RunEnd(call_args, i) - i + 1 < MIN_STRING_LENGTH

Occurrences(data, b) == Cardinality({i \in 1..Len(data) : data[i] = b})

\* C12: count_byte_frequencies adds to every bin the number of occurrences
\* of its byte value in the buffer (from a zeroed array the bins sum to the
\* buffer length), however the tiles are grouped and the arrays reduced.
C12_BinsCountOccurrences ==
    pc = "counted" =>
        /\ \A b \in Bytes :
               call_result[b] = call_args.frequencies[b] + Occurrences(call_args.data, b)
        /\ call_args.frequencies = EmptyFrequencies
               => SumBins(call_result, Bytes) = Len(call_args.data)

\* A buffer of several tiles, the last one partial, counted into an array
\* that held earlier counts.
C12_Witness ==
    /\ pc = "counted"
    /\ Len(par_chunks(call_args.data)) = MaxTiles + 1
    /\ Len(call_args.data) % BYTE_COUNT_CHUNK_SIZE # 0
    /\ call_args.frequencies # EmptyFrequencies
    /\ call_result[66] > 1

\* A pattern without sequences, strings and average entropy.
NoEvidence(p) ==
    p.data.sequences = <<>> /\ p.data.strings = {} /\ p.data.average_entropy = 0

\* ".test" and "TEST"
DotTest == <<46, 116, 101, 115, 116>>
UpperTest == <<84, 69, 83, 84>>

EndsWith(path, suffix) ==
    /\ Len(path) >= Len(suffix)
    /\ SubSeq(path, Len(path) - Len(suffix) + 1, Len(path)) = suffix

\* The last component of a path.
FileName(path) == SubSeq(path, LastIndexOf(path, 47) + 1, Len(path))

\* C13 as stated: a pattern without evidence that knows "TEST" scores any
\* buffer under any path that ends in ".test" exactly 5, whatever
\* total_scanned_files and apply_confidence are.
C13_DotTestPathScoresFive ==
    (pc = "scored" /\ NoEvidence(pattern)
        /\ UpperTest \in Range(pattern.type_data.known_extensions)
        /\ EndsWith(scored.path, DotTest))
        => scored.points = 5

\* C13 amended: the same for every path whose file name is a non-empty stem
\* followed by ".test"; a file name that is ".test" alone has no extension.
C13_TestExtensionScoresFive ==
    (pc = "scored" /\ NoEvidence(pattern)
        /\ UpperTest \in Range(pattern.type_data.known_extensions)
        /\ EndsWith(scored.path, DotTest)
        /\ Len(FileName(scored.path)) > Len(DotTest))
        => scored.points = 5

\* A non-empty buffer scored under "f.test" with confidence scaling by the
\* largest number of scanned files.
C13_Witness ==
    /\ pc = "scored"
    /\ NoEvidence(pattern)
    /\ pattern.other_data.total_scanned_files = MaxScanned
    /\ scored.apply_confidence
    /\ scored.chunk # <<>>
    /\ EndsWith(scored.path, DotTest)
    /\ Len(FileName(scored.path)) > Len(DotTest)
    /\ scored.points = 5

\* C14: the composition contribution to a score is never negative (it is
\* clamped at 0), so a score without confidence scaling is never lower than
\* its sequence points plus its string points.
C14_CompositionPointsNotNegative ==
    pc = "scored" =>
        /\ test_entropy_deviation(
               pattern, count_byte_frequencies(scored.chunk, EmptyFrequencies)) >= 0
        /\ (~scored.apply_confidence /\ ~AnyPairFails(pattern, scored.chunk))
               => scored.points >=
                      SumSequenceLens(pattern.data.sequences, 1)
                          + SumLens(pattern.data.strings
                                        \cap extract_file_strings(scored.chunk))

\* The sequence points and the string points a chunk earns, in units of FP.
EvidencePoints(p, chunk) ==
    (SumSequenceLens(p.data.sequences, 1)
         + SumLens(p.data.strings \cap extract_file_strings(chunk))) * FP

\* points * factor for fixed-point values.
Scaled(points, factor) == (points * factor) \div FP

\* C15: with an average entropy of 0 composition scoring is disabled:
\* compute adds no composition points for any buffer and max_points does not
\* include the 15 entropy points.
C15_ZeroEntropyDisablesComposition ==
    (pc = "scored" /\ pattern.data.average_entropy = 0) =>
        /\ pattern.max_points =
               ceil(Scaled((SumSequenceLens(pattern.data.sequences, 1)
                                + SumLens(pattern.data.strings)) * FP,
                           pattern.confidence_factor)
                        + FILE_EXTENSION_POINTS)
        /\ ~AnyPairFails(pattern, scored.chunk) =>
               scored.points =
                   round((IF scored.apply_confidence
                          THEN Scaled(EvidencePoints(pattern, scored.chunk),
                                      pattern.confidence_factor)
                          ELSE EvidencePoints(pattern, scored.chunk))
                             + test_file_extension(pattern, scored.path))

\* A pattern with sequences and strings but a zero average entropy, scored
\* against a buffer with a non-zero entropy that matches a sequence.
C15_Witness ==
    /\ pc = "scored"
    /\ pattern.data.average_entropy = 0
    /\ pattern.data.sequences # <<>>
    /\ pattern.data.strings # {}
    /\ pattern.other_data.total_scanned_files > 0
    /\ ~AnyPairFails(pattern, scored.chunk)
    /\ EntropyOf(scored.chunk) # 0
    /\ scored.points > 0


AttributesComputed(p) ==
    /\ p.confidence_factor = compute_confidence_factor(p)
    /\ p.max_points = compute_max_points(p)

SortedByPercentage(s) ==
    \A i, j \in DOMAIN s : i < j => s[i].percentage >= s[j].percentage

\* a < b in the lexicographic order of byte strings.
LexLess(a, b) ==
    \E k \in 1..(Len(a) + 1) :
        /\ k <= Len(b)
        /\ \A m \in 1..(k - 1) : a[m] = b[m]
        /\ (k = Len(a) + 1 \/ a[k] < b[k])

\* C18 as stated: the matches are sorted by percentage descending, and of two
\* matches with equal percentage the one with more points comes first, and
\* with equal points the one with the lexicographically smaller id.
C18_TiesByPointsThenId ==
    pc = "matched" =>
        /\ SortedByPercentage(point_store)
        /\ \A i, j \in DOMAIN point_store :
               (i < j /\ point_store[i].percentage = point_store[j].percentage) =>
                   \/ point_store[i].points > point_store[j].points
                   \/ /\ point_store[i].points = point_store[j].points
                      /\ LexLess(point_store[i].uuid, point_store[j].uuid)

\* C18, amended: the matches are sorted by percentage descending; nothing is
\* said about the order of matches with equal percentage.
C18_SortedByPercentageDescending ==
    pc = "matched" => SortedByPercentage(point_store)

\* Two patterns matched with different percentages, and the one loaded first
\* is ranked second.
C18_Witness ==
    /\ pc = "matched"
    /\ Len(point_store) = 2
    /\ point_store[1].percentage > point_store[2].percentage
    /\ handler_patterns[1].type_data.uuid = point_store[2].uuid


\* The patterns of the handler that score more than 0 for the sample.
Scoring ==
    {i \in DOMAIN handler_patterns :
        compute(handler_patterns[i], sample.chunk, sample.path, TRUE) > 0}

\* C19: the list match_patterns returns holds one match for each pattern of
\* the handler whose score for the candidate is greater than 0, with that
\* score, and no other match; it is empty when no pattern scores.
C19_MatchedIffPositiveScore ==
    pc = "matched" =>
        /\ Len(point_store) = Cardinality(Scoring)
        /\ \A i \in DOMAIN handler_patterns :
               i \in Scoring <=>
                   \E j \in DOMAIN point_store :
                      /\ point_store[j].uuid = handler_patterns[i].type_data.uuid
                      /\ point_store[j].points =
                             compute(handler_patterns[i], sample.chunk, sample.path, TRUE)

\* Two patterns were loaded; the one whose byte sequence fails is left out
\* and the other is returned.
C19_Witness ==
    /\ pc = "matched"
    /\ Len(handler_patterns) = 2
    /\ Len(point_store) = 1
    /\ \E i \in DOMAIN handler_patterns :
          /\ i \notin Scoring
          /\ ~test_byte_sequences(handler_patterns[i], sample.chunk)[2]
          /\ test_file_extension(handler_patterns[i], sample.path) > 0

\* C20 as stated: when the candidate cannot be opened or read, matching ends
\* without a panic and returns the empty list.
C20_UnreadableSampleGivesEmptyList ==
    (~sample.readable /\ pc \notin {"load", "loaded"}) =>
        (pc = "matched" /\ point_store = <<>>)

\* The validation failures of the two commands.
ValidationFailed ==
    \/ /\ call_args.command = "pattern"
       /\ \/ ~call_args.path_exists
          \/ trim_start_matches(call_args.extension, 46) = <<>>
          \/ call_args.no_strings /\ call_args.no_sequences /\ call_args.no_composition
    \/ /\ call_args.command = "identify"
       /\ call_args.file_exists
       /\ handler_patterns = <<>>

\* C21 as stated: a process that ended on a validation failure (all three
\* --no-* flags, a missing sample directory or an empty extension for the
\* pattern command, no usable pattern for the identify command) has a
\* nonzero exit code.
C21_ValidationFailureExitsNonzero ==
    (pc = "exited" /\ ValidationFailed) => call_result.exit_code # EXIT_SUCCESS

\* C22: in a built pattern the evidence of a disabled scan mode is empty,
\* whatever the samples hold: no strings without scan_strings, no sequences
\* without scan_byte_sequences, an average entropy of 0 without
\* scan_byte_distribution.
C22_DisabledScanLeavesEvidenceEmpty ==
    pc = "built" =>
        /\ ~scan_strings => pattern.data.strings = {}
        /\ ~scan_byte_sequences => pattern.data.sequences = <<>>
        /\ ~scan_byte_distribution => pattern.data.average_entropy = 0

\* A pattern was built with all three modes disabled from two equal samples
\* that hold a string, a common byte run and a positive entropy.
C22_Witness ==
    /\ pc = "built"
    /\ ~scan_strings /\ ~scan_byte_sequences /\ ~scan_byte_distribution
    /\ Len(files) = 2
    /\ files[1] = files[2]
    /\ extract_file_strings(files[1]) # {}
    /\ EntropyOf(files[1]) > 0
    /\ pattern.other_data.total_scanned_files = 2

\* Position p (counted from 0) lies in the pair.
Covers(pair, p) == pair[1] <= p /\ p < pair[1] + Len(pair[2])

\* Position p lies in the seed pair and in the buffer, and the seed byte at p
\* is the byte of the buffer.
Agrees(seed, bytes, p) ==
    /\ Covers(seed, p)
    /\ p < Len(bytes)
    /\ seed[2][p - seed[1] + 1] = bytes[p + 1]

\* The first position and the position after the last of the maximal run of
\* agreeing positions of the seed pair around p.
AgreeingRunStart(seed, bytes, p) ==
    CHOOSE a \in seed[1]..p :
        /\ \A q \in a..p : Agrees(seed, bytes, q)
        /\ a = seed[1] \/ ~Agrees(seed, bytes, a - 1)

AgreeingRunEnd(seed, bytes, p) ==
    CHOOSE e \in (p + 1)..(seed[1] + Len(seed[2])) :
        /\ \A q \in p..(e - 1) : Agrees(seed, bytes, q)
        /\ ~Agrees(seed, bytes, e)

\* The emitted pair is a piece of a maximal agreeing run of a seed pair: it
\* starts a multiple of 16 after the run's first position and is 16 long, or
\* shorter when the run ends before.
IsRunPiece(pair, seeds, bytes) ==
    \E k \in DOMAIN seeds :
        /\ Agrees(seeds[k], bytes, pair[1])
        /\ (pair[1] - AgreeingRunStart(seeds[k], bytes, pair[1]))
               % MAX_BYTE_SEQUENCE_LENGTH = 0
        /\ Len(pair[2]) = Min(MAX_BYTE_SEQUENCE_LENGTH,
                              AgreeingRunEnd(seeds[k], bytes, pair[1]) - pair[1])
        /\ pair[2] = SubSeq(bytes, pair[1] + 1, pair[1] + Len(pair[2]))

\* An emitted pair without bytes stands at a mismatch that directly follows
\* a cut: the run before it is a multiple of 16 long.
IsEmptyAfterCut(pair, seeds, bytes) ==
    \E k \in DOMAIN seeds :
        /\ Covers(seeds[k], pair[1])
        /\ pair[1] < Len(bytes)
        /\ ~Agrees(seeds[k], bytes, pair[1])
        /\ Agrees(seeds[k], bytes, pair[1] - 1)
        /\ (pair[1] - AgreeingRunStart(seeds[k], bytes, pair[1] - 1))
               % MAX_BYTE_SEQUENCE_LENGTH = 0

\* C23: refine_common_byte_sequences_v2 emits exactly the agreeing positions.
\* A position of the buffer that a seed pair covers with the byte of the
\* buffer lies in exactly one emitted pair, any other position in none; each
\* emitted pair with bytes is the next piece of at most 16 bytes of a maximal
\* agreeing run, counted from the run's first position, so no byte is doubled
\* or skipped at a cut; an emitted pair without bytes only marks a mismatch
\* right after a cut.
C23_RefineEmitsAgreeingPositions ==
    pc = "refined" =>
        LET bytes == call_args.file_bytes
            seeds == call_args.sequences
            CoverCount(p) ==
                Cardinality({j \in DOMAIN call_result : Covers(call_result[j], p)})
        IN  /\ \A p \in 0..Len(bytes) :
                   CoverCount(p) =
                       IF \E k \in DOMAIN seeds : Agrees(seeds[k], bytes, p)
                       THEN 1 ELSE 0
            /\ \A j \in DOMAIN call_result :
                   IF call_result[j][2] = <<>>
                   THEN IsEmptyAfterCut(call_result[j], seeds, bytes)
                   ELSE /\ call_result[j][1] + Len(call_result[j][2]) <= Len(bytes)
                        /\ IsRunPiece(call_result[j], seeds, bytes)

\* A run of more than 32 agreeing bytes was emitted as two pairs of 16 and a
\* remainder, a mismatch followed, and a further pair starts after it.
C23_Witness ==
    /\ pc = "refined"
    /\ Len(call_result) >= 4
    /\ call_result[1][1] = 0
    /\ Len(call_result[1][2]) = MAX_BYTE_SEQUENCE_LENGTH
    /\ call_result[2] = <<MAX_BYTE_SEQUENCE_LENGTH, Rep(65, MAX_BYTE_SEQUENCE_LENGTH)>>
    /\ call_result[3] = <<2 * MAX_BYTE_SEQUENCE_LENGTH, <<65>>>>
    /\ call_result[4][1] > 2 * MAX_BYTE_SEQUENCE_LENGTH + 1
    /\ call_result[4][2] # <<>>

\* The indices of file_bytes that the refinement reads for a seed pair that
\* passes the filter: the slice *index..segment_read_length, of which
\* extract_matching_sequences reads the first min(len, len) bytes.
ReadIndices(file_bytes, seed) ==
    LET segment_read_length ==
            Min(saturating_add(seed[1], Len(seed[2])), Len(file_bytes))
    IN  {seed[1] + i : i \in 0..(Min(Len(seed[2]), segment_read_length - seed[1]) - 1)}

\* C24: refine_common_byte_sequences_v2 stays within file_bytes.  A seed pair
\* whose offset is greater than the length of the buffer contributes nothing,
\* for the others every index read is below the length of the buffer, and
\* every emitted pair ends within the buffer and has at most 16 bytes.
C24_RefineStaysWithinBuffer ==
    pc = "refined" =>
        LET bytes == call_args.file_bytes
            seeds == call_args.sequences
        IN  /\ call_result =
                   refine_common_byte_sequences_v2(
                       bytes, SelectSeq(seeds, LAMBDA seed : seed[1] <= Len(bytes)))
            /\ \A k \in DOMAIN seeds :
                   seeds[k][1] <= Len(bytes) =>
                       \A i \in ReadIndices(bytes, seeds[k]) : i >= 0 /\ i < Len(bytes)
            /\ \A j \in DOMAIN call_result :
                   /\ call_result[j][1] + Len(call_result[j][2]) <= Len(bytes)
                   /\ Len(call_result[j][2]) <= MAX_BYTE_SEQUENCE_LENGTH

\* A list with a pair at the end of the buffer and a pair near the largest
\* integer was refined, and a pair was emitted.
C24_Witness ==
    /\ pc = "refined"
    /\ call_result # <<>>
    /\ \E k \in DOMAIN call_args.sequences :
           call_args.sequences[k][1] = Len(call_args.file_bytes)
    /\ \E k \in DOMAIN call_args.sequences :
           call_args.sequences[k][1] >= USIZE_MAX - 1

\* The start positions (from 0) at which a window of str_1 of the given size
\* occurs somewhere in str_2.
CommonWindowStarts(str_1, str_2, size) ==
    {i \in 0..(Len(str_1) - size) :
        \E k \in 0..(Len(str_2) - size) :
            SubSeq(str_1, i + 1, i + size) = SubSeq(str_2, k + 1, k + size)}

\* The lengths, from MIN_STRING_LENGTH on, of the common substrings.
CommonLengths(str_1, str_2) ==
    {size \in MIN_STRING_LENGTH..Len(str_1) : CommonWindowStarts(str_1, str_2, size) # {}}

\* C25: largest_common_substring returns str_1 when the strings are equal;
\* otherwise none exactly when they have no common substring of at least 5
\* bytes, and else the leftmost window of str_1 of the greatest common length
\* that occurs in str_2.  The has_common_elements shortcut answers none only
\* where the search would.
C25_LargestCommonSubstring ==
    pc = "lcs_done" =>
        LET str_1   == call_args.str_1
            str_2   == call_args.str_2
            lengths == CommonLengths(str_1, str_2)
        IN  IF str_1 = str_2 THEN call_result = {str_1}
            ELSE /\ call_result = {} <=> lengths = {}
                 /\ call_result = lcs_find(str_1, str_2, Len(str_1))
                 /\ lengths # {} =>
                        LET size  == CHOOSE m \in lengths : \A n \in lengths : n <= m
                            starts == CommonWindowStarts(str_1, str_2, size)
                            first == CHOOSE i \in starts : \A j \in starts : i <= j
                        IN  call_result = {SubSeq(str_1, first + 1, first + size)}

\* Two different strings have two windows of the greatest common length, and
\* the one returned is the leftmost, which is not a prefix of str_1.
C25_Witness ==
    /\ pc = "lcs_done"
    /\ call_args.str_1 # call_args.str_2
    /\ call_result # {}
    /\ \E w \in call_result :
          /\ Len(w) < Len(call_args.str_1)
          /\ Cardinality(CommonWindowStarts(call_args.str_1, call_args.str_2, Len(w))) >= 2
          /\ SubSeq(call_args.str_1, 1, Len(w)) # w

\* The strings of the pattern that are equal to a token of the buffer.
MatchedStrings(p, bytes) == p.data.strings \cap ExpectedStrings(bytes)

\* C26: the string points of a score are the sum of the lengths of the
\* pattern strings equal to a token extracted from the buffer, so they are
\* never negative and a pattern string that is only part of a token earns
\* nothing; when no string is matched the score is the score the pattern
\* gets without its strings.
C26_StringPointsAreMatchedLengths ==
    pc = "scored" =>
        /\ test_file_strings(pattern, scored.chunk)
               = SumLens(MatchedStrings(pattern, scored.chunk)) * FP
        /\ test_file_strings(pattern, scored.chunk) >= 0
        /\ MatchedStrings(pattern, scored.chunk) = {} =>
               scored.points =
                   compute([pattern EXCEPT !.data.strings = {}],
                           scored.chunk, scored.path, scored.apply_confidence)

\* A pattern with two strings was scored against a buffer whose only token
\* is one of them and contains the other as a proper part.
C26_Witness ==
    /\ pc = "scored"
    /\ Cardinality(pattern.data.strings) = 2
    /\ Cardinality(MatchedStrings(pattern, scored.chunk)) = 1
    /\ \E str \in pattern.data.strings \ MatchedStrings(pattern, scored.chunk) :
           \E token \in ExpectedStrings(scored.chunk) :
              Len(str) < Len(token) /\ str_contains(token, str)
    /\ scored.points > 0

\* C27: ranking does not panic.  For any patterns of the handler, also with
\* max_points 0 or a score above max_points, match_patterns on a readable
\* candidate returns, and no percentage of a returned match is NaN.
C27_RankingNeverPanics ==
    (pc # "loaded" /\ sample.readable) =>
        /\ pc = "matched"
        /\ \A j \in DOMAIN point_store :
               partial_cmp(point_store[j].percentage, point_store[j].percentage) # {}

\* Two matches were ranked, the first with max_points 0 and an infinite
\* percentage, the second with a finite one.
C27_Witness ==
    /\ pc = "matched"
    /\ Len(point_store) = 2
    /\ point_store[1].max_points = 0
    /\ point_store[1].percentage = INFINITY
    /\ point_store[2].max_points > 0
    /\ point_store[2].percentage < INFINITY

\* The sequences with the elements of s in another order.
Reorderings(s) ==
    {[i \in DOMAIN s |-> s[f[i]]] :
        f \in {g \in [DOMAIN s -> DOMAIN s] : \A i, j \in DOMAIN s : i # j => g[i] # g[j]}}

\* C28 as stated: the set of strings common_string_sieve returns is a
\* function of the input sets.  Whatever the order of the sets, the order of
\* the strings inside them and the choice among candidates of equal length,
\* the call returns the set of strings it returned here.
C28_SieveDependsOnlyOnSets ==
    pc = "sieved" =>
        \A sets \in Reorderings(sieve_sets) :
            \A result \in common_string_sieve(sets) :
                Range(result) = Range(sieve_result)

\* The sequences build_patterns_from_data stores for the listing fs: seed
\* from the first file, refine with the others, strip, sort.
built_sequences(fs) ==
    LET loc == build_loop(fs, 1, FALSE, TRUE, FALSE,
                          [first_byte_sequence_pass |-> TRUE,
                           common_byte_sequences    |-> <<>>,
                           all_strings              |-> <<>>,
                           byte_distribution        |-> EmptyFrequencies])
    IN  sort_unstable_by_offset_reverse(
            strip_unwanted_sequences(loc.common_byte_sequences))

\* C29 as stated: the sequences of a built pattern do not depend on the order
\* in which the training samples are processed.  Every listing of the same
\* sample headers yields the list of (offset, bytes) pairs that was built.
C29_SequencesIndependentOfSampleOrder ==
    (pc = "built" /\ scan_byte_sequences) =>
        \A order \in Reorderings(files) :
            built_sequences(order) = {pattern.data.sequences}

\* common_byte_sequences after the first k files of the listing went through
\* the loop: the seed for k = 1, then one refinement per file.
sequences_after(k) ==
    build_loop(SubSeq(files, 1, k), 1, FALSE, TRUE, FALSE,
               [first_byte_sequence_pass |-> TRUE,
                common_byte_sequences    |-> <<>>,
                all_strings              |-> <<>>,
                byte_distribution        |-> EmptyFrequencies]).common_byte_sequences

\* No buffer position is covered by two pairs of the list and no two pairs
\* have the same offset.
NonOverlapping(sequences) ==
    \A i, j \in DOMAIN sequences :
        i # j =>
            /\ sequences[i][1] # sequences[j][1]
            /\ \A x \in 0..(Len(sequences[i][2]) - 1), y \in 0..(Len(sequences[j][2]) - 1) :
                   sequences[i][1] + x # sequences[j][1] + y

\* C30: after the seed, after every refinement and after the finalization
\* the sequences are pairwise non-overlapping: no buffer position is covered
\* by two pairs and no two pairs share an offset; the finalized list is
\* strictly descending by offset.
C30_SequencesNeverOverlap ==
    (pc = "built" /\ scan_byte_sequences) =>
        /\ \A k \in 1..Len(files) : NonOverlapping(sequences_after(k))
        /\ NonOverlapping(pattern.data.sequences)
        /\ \A i \in 1..(Len(pattern.data.sequences) - 1) :
               pattern.data.sequences[i][1] > pattern.data.sequences[i + 1][1]

\* A pattern built from three samples whose first refinement cut a run into
\* two pieces and left an empty pair, and whose finalized list holds two pairs.
C30_Witness ==
    /\ pc = "built"
    /\ scan_byte_sequences
    /\ Len(files) = OrderFiles
    /\ Len(sequences_after(2)) >= 3
    /\ \E i \in DOMAIN sequences_after(2) : sequences_after(2)[i][2] = <<>>
    /\ Len(pattern.data.sequences) >= 2


=============================================================================
